---------------------------- MODULE Spec2Model ----------------------------
(***************************************************************************)
(* StudyHelper backend: the persistence / fallback layer and the quiz      *)
(* relational integrity protocol.                                          *)
(*                                                                         *)
(*   supabase_client.py : document store over Supabase (primary) with a    *)
(*                        local SQLite fallback and the SUPABASE_AVAILABLE *)
(*                        latch                                            *)
(*   quiz_database.py   : quiz creation / retrieval / attempt recording    *)
(*   main.py            : generate_quiz_api, submit_quiz,                  *)
(*                        save_quiz_with_title                             *)
(*                                                                         *)
(* Every public operation is one action (the whole handler).  The outcome  *)
(* of each backend call the handler makes is an input of the action:       *)
(*   "ok"     the call takes effect and returns its rows,                  *)
(*   "raise"  the client raises (network, constraint, policy),             *)
(*   "nodata" the call returns without rows and without effect.            *)
(***************************************************************************)
EXTENDS Integers, Sequences, FiniteSets, TLC

VARIABLES
    SUPABASE_AVAILABLE,  \* supabase_client.SUPABASE_AVAILABLE
    supaDocs,            \* rows of the primary "documents" table
    sqliteDocs,          \* rows of local_documents.db "documents"
    nextSupaDocId,       \* primary doc_id sequence
    nextSqliteDocId,     \* SQLite AUTOINCREMENT doc_id
    downloads,           \* download_count of the documents, per backend
    files,               \* files of the "summaries" bucket and of the local directory
    localDb,             \* local_documents.db: the file and its documents table
    quizzes,             \* rows of "quizzes"
    questions,           \* rows of "questions"
    options,             \* rows of "options"
    quiz_questions,      \* rows of "quiz_questions"
    nextQuizId,          \* quiz_id sequence
    nextQuestionId,      \* question_id sequence
    user_quizzes,        \* rows of "user_quizzes"
    user_answers,        \* rows of "user_answers"
    nextUserQuizId,      \* user_quiz_id sequence
    schema,              \* constraints of the deployed schema (not part of the sources)
    procs,               \* in-flight save_user_quiz_attempt calls (interleaved steps)
    request,             \* the arguments of the call about to be served
    last                 \* the last completed call: arguments, result, calls made

docVars == <<SUPABASE_AVAILABLE, supaDocs, sqliteDocs, nextSupaDocId, nextSqliteDocId,
             downloads, files, localDb>>
quizVars == <<quizzes, questions, options, quiz_questions, nextQuizId, nextQuestionId>>
attemptVars == <<user_quizzes, user_answers, nextUserQuizId>>
vars == <<docVars, quizVars, attemptVars, schema, procs, request, last>>

----------------------------------------------------------------------------
(* Values *)

\* Python None
Null == "<None>"

\* the demo user substituted for a missing user_id
DEMO_USER == "550e8400-e29b-41d4-a716-446655440000"

Users == {"u1", "u2"}
Topics == {"Cats"}

\* outcomes of one backend call; an operation that does not make the call
\* takes "ok" for it
Outcomes == {"ok", "raise", "nodata"}
ReadOutcomes == {"ok", "raise"}

\* Python truthiness of an optional string
Truthy(x) == x \notin {Null, ""}

\* str(x) for an optional string
StrOf(x) == IF x = Null THEN "None" ELSE x

\* `if not user_id: user_id = "550e8400-..."'
EffectiveUser(user_id) == IF Truthy(user_id) THEN user_id ELSE DEMO_USER

NoCall == [op |-> "none"]

\* The table definitions are not among the sources: whether options carries
\* CHECK (correct_option IN ('A','B','C','D')) and whether user_quizzes
\* carries UNIQUE (user_id, quiz_id) is left open
Schemas == [options_check : BOOLEAN, attempt_unique : BOOLEAN]

\* get_document's None
NoDoc == [doc_id |-> 0, topic |-> Null, user_id |-> Null, media_user_id |-> Null,
          download_count |-> 0]

----------------------------------------------------------------------------
(* Bounds *)

\* documents created per backend
MaxDocs == 1
\* documents already in local_documents.db when the process starts
MaxLocalAtStart == 1

----------------------------------------------------------------------------
(* Document store: supabase_client.py *)

\* _normalize_supabase_document: the fields of the canonical document that
\* depend on the stored row (created_at is generated at each call and the
\* lengths are derived from content), and media["download_count"], which is
\* set to 0 whatever the record holds
_normalize_supabase_document(record) ==
    [doc_id |-> record.doc_id,
     topic |-> record.topic,
     user_id |-> IF Truthy(record.user_id) THEN StrOf(record.user_id) ELSE Null,
     media_user_id |-> StrOf(record.user_id),
     download_count |-> 0]

\* the primary select of get_document: rows with this doc_id
SupaSelect(doc_id) == {d \in supaDocs : d.doc_id = doc_id}
SqliteSelect(doc_id) == {d \in sqliteDocs : d.doc_id = doc_id}

\* `if SUPABASE_AVAILABLE and _supabase': _supabase is set exactly when the
\* start-up probe succeeded and is never reset, so the test is the flag
UsePrimary(avail) == avail

\* _handle_supabase_failure: the flag after a primary call with outcome o
HandleSupabaseFailureMut(avail, o) == avail
_handle_supabase_failure(avail, o) == IF o = "raise" THEN FALSE ELSE avail

\* local_documents.db as the code sees it: LOCAL_DB_PATH.exists() and whether
\* the file holds the documents table
NoLocalDb == [file |-> FALSE, table |-> FALSE]
ReadyLocalDb == [file |-> TRUE, table |-> TRUE]

\* _init_local_storage: sqlite3.connect creates the file, CREATE TABLE IF NOT
\* EXISTS creates the table
_init_local_storage(db) == [file |-> TRUE, table |-> TRUE]

\* CREATE TABLE IF NOT EXISTS documents: the rows of the table afterwards
CreateTableIfNotExists(db, rows) == IF db.table THEN rows ELSE {}

\* _ensure_local_mode: the schema is initialised only when the file is missing
EnsureLocalModeMut(db) == db
_ensure_local_mode(db) == IF ~db.file THEN _init_local_storage(db) ELSE db

\* _sqlite_connection: _ensure_local_mode, then sqlite3.connect (which
\* creates a missing file, not the table)
_sqlite_connection(db) == [file |-> TRUE, table |-> _ensure_local_mode(db).table]

\* what an operation reports about local_documents.db: not opened, opened
\* with the documents table there, or "no such table" raised
LocalUse(opened, db) ==
    IF ~opened THEN "unused" ELSE IF db.table THEN "opened" ELSE "no such table"

\* get_document(doc_id) with outcome o of its primary select:
\* the document returned (Null for None), the flag afterwards, the number of
\* primary calls made, whether one raised, and local_documents.db (db0 when
\* the call starts) afterwards
get_document(avail, db0, doc_id, o) ==
    LET primary == UsePrimary(avail)
        hit == primary /\ o = "ok" /\ SupaSelect(doc_id) # {}
        avail2 == IF primary THEN _handle_supabase_failure(avail, o) ELSE avail
        db == IF hit THEN db0 ELSE _sqlite_connection(db0)
        doc == IF hit
                 THEN _normalize_supabase_document(CHOOSE d \in SupaSelect(doc_id) : TRUE)
                 ELSE IF db.table /\ SqliteSelect(doc_id) # {}
                        THEN _normalize_supabase_document(CHOOSE d \in SqliteSelect(doc_id) : TRUE)
                        ELSE NoDoc
    IN [doc |-> doc, avail |-> avail2,
        calls |-> IF primary THEN 1 ELSE 0,
        raised |-> primary /\ o = "raise",
        db |-> db, opened |-> ~hit]

\* what the tables looked like when the call started
PreDocs == [avail |-> SUPABASE_AVAILABLE, supa |-> supaDocs, sqlite |-> sqliteDocs,
            db |-> localDb, downloads |-> downloads]

\* save_document_session(user_id, topic, ...) with outcome o of the primary insert
SaveDocumentSession(user_id, topic, o) ==
    LET u == EffectiveUser(user_id)
        primary == UsePrimary(SUPABASE_AVAILABLE)
        stored == primary /\ o = "ok"
        noData == primary /\ o = "nodata"
        avail2 == IF primary THEN _handle_supabase_failure(SUPABASE_AVAILABLE, o)
                  ELSE SUPABASE_AVAILABLE
        opened == ~stored /\ ~noData
        db == IF opened THEN _sqlite_connection(localDb) ELSE localDb
        inserted == opened /\ db.table
    IN /\ ~primary => o = "ok"
       /\ IF primary /\ o # "raise" THEN nextSupaDocId <= MaxDocs
                                      ELSE nextSqliteDocId <= MaxDocs + MaxLocalAtStart
       /\ SUPABASE_AVAILABLE' = avail2
       /\ localDb' = db
       /\ IF stored
            THEN /\ supaDocs' = supaDocs \cup
                       {[doc_id |-> nextSupaDocId, user_id |-> u, topic |-> topic]}
                 /\ nextSupaDocId' = nextSupaDocId + 1
                 /\ UNCHANGED <<sqliteDocs, nextSqliteDocId>>
            ELSE IF inserted
                   THEN /\ sqliteDocs' = sqliteDocs \cup
                              {[doc_id |-> nextSqliteDocId, user_id |-> u, topic |-> topic]}
                        /\ nextSqliteDocId' = nextSqliteDocId + 1
                        /\ UNCHANGED <<supaDocs, nextSupaDocId>>
                   ELSE UNCHANGED <<supaDocs, nextSupaDocId, sqliteDocs, nextSqliteDocId>>
       /\ last' = [op |-> "save_document_session",
                   doc_id |-> IF stored THEN nextSupaDocId
                              ELSE IF inserted THEN nextSqliteDocId ELSE 0,
                   user_id |-> user_id,
                   result |-> IF stored \/ inserted THEN "saved" ELSE "failed",
                   storage |-> IF stored THEN "supabase"
                               ELSE IF inserted THEN "sqlite" ELSE "none",
                   fetched |-> NoDoc, listed |-> <<>>,
                   calls |-> IF primary THEN 1 ELSE 0,
                   raised |-> primary /\ o = "raise",
                   local |-> LocalUse(opened, db),
                   pre |-> PreDocs]
       /\ UNCHANGED <<downloads, files>>
       /\ UNCHANGED <<quizVars, attemptVars, schema, procs, request>>

\* get_document(doc_id) as an operation
GetDocument(doc_id, o) ==
    LET r == get_document(SUPABASE_AVAILABLE, localDb, doc_id, o)
    IN /\ ~UsePrimary(SUPABASE_AVAILABLE) => o = "ok"
       /\ SUPABASE_AVAILABLE' = r.avail
       /\ localDb' = r.db
       /\ last' = [op |-> "get_document", doc_id |-> doc_id, user_id |-> Null,
                   result |-> IF r.doc = NoDoc THEN "not_found" ELSE "found",
                   storage |-> "none",
                   fetched |-> r.doc, listed |-> <<>>,
                   calls |-> r.calls, raised |-> r.raised,
                   local |-> LocalUse(r.opened, r.db),
                   pre |-> PreDocs]
       /\ UNCHANGED <<supaDocs, sqliteDocs, nextSupaDocId, nextSqliteDocId>>
       /\ UNCHANGED <<downloads, files>>
       /\ UNCHANGED <<quizVars, attemptVars, schema, procs, request>>

\* limit = None
NoLimit == 0 - 1

\* ORDER BY doc_id DESC / .order("doc_id", desc=True): the rows as a list
RECURSIVE DescById(_)
DescById(rows) ==
    IF rows = {} THEN <<>>
    ELSE LET first == CHOOSE d \in rows : \A e \in rows : e.doc_id <= d.doc_id
         IN <<first>> \o DescById(rows \ {first})

\* `if limit: ... LIMIT ?' / `query.limit(limit)': None and 0 do not limit
Limited(docs, limit) ==
    IF limit = NoLimit \/ limit = 0 THEN docs
    ELSE SubSeq(docs, 1, IF limit < Len(docs) THEN limit ELSE Len(docs))

\* `if user_id: ... WHERE user_id = ?' / `query.eq("user_id", str(user_id))'
OwnedBy(rows, user_id) ==
    {d \in rows : Truthy(user_id) => d.user_id = StrOf(user_id)}

\* get_user_documents(user_id, limit) with outcome o of the primary query:
\* the doc_id and user_id of the documents returned, in order
GetUserDocuments(user_id, limit, o) ==
    LET primary == UsePrimary(SUPABASE_AVAILABLE)
        fromPrimary == primary /\ o = "ok"
        opened == ~fromPrimary
        db == IF opened THEN _sqlite_connection(localDb) ELSE localDb
        rows == IF fromPrimary THEN OwnedBy(supaDocs, user_id)
                ELSE IF db.table THEN OwnedBy(sqliteDocs, user_id) ELSE {}
        docs == Limited(DescById(rows), limit)
    IN /\ ~primary => o = "ok"
       /\ SUPABASE_AVAILABLE' =
              (IF primary THEN _handle_supabase_failure(SUPABASE_AVAILABLE, o)
               ELSE SUPABASE_AVAILABLE)
       /\ localDb' = db
       /\ last' = [op |-> "get_user_documents", doc_id |-> 0, user_id |-> user_id,
                   limit |-> limit,
                   result |-> "listed",
                   storage |-> IF fromPrimary THEN "supabase" ELSE "sqlite",
                   fetched |-> NoDoc,
                   listed |-> [i \in 1 .. Len(docs) |->
                                  [doc_id |-> docs[i].doc_id,
                                   user_id |-> IF fromPrimary
                                                 THEN _normalize_supabase_document(docs[i]).user_id
                                                 ELSE docs[i].user_id]],
                   calls |-> IF primary THEN 1 ELSE 0,
                   raised |-> primary /\ o = "raise",
                   local |-> LocalUse(opened, db),
                   pre |-> PreDocs]
       /\ UNCHANGED <<supaDocs, sqliteDocs, nextSupaDocId, nextSqliteDocId>>
       /\ UNCHANGED <<downloads, files>>
       /\ UNCHANGED <<quizVars, attemptVars, schema, procs, request>>

\* the ownership test of delete_document: TRUE when the call must be denied
OwnershipDeniedMut(doc, user_id) == FALSE
OwnershipDenied(doc, user_id) ==
    /\ Truthy(user_id)
    /\ LET doc_user_id == IF Truthy(doc.user_id) THEN doc.user_id ELSE doc.media_user_id
       IN Truthy(doc_user_id) /\ StrOf(doc_user_id) # StrOf(user_id)

\* the dict delete_document returns: found is get_document's answer, denied
\* the ownership test, noData a primary delete that returned no rows, noTable
\* an exception of the SQLite DELETE
DeleteReplyMut(found, denied, noData, noTable) ==
    IF ~found \/ denied THEN [success |-> FALSE, message |-> "Document not found"]
    ELSE IF noData THEN [success |-> FALSE, message |-> "Failed to delete document"]
    ELSE IF noTable THEN [success |-> FALSE, message |-> "Database error"]
    ELSE [success |-> TRUE, message |-> "Document deleted successfully"]
DeleteReply(found, denied, noData, noTable) ==
    IF ~found THEN [success |-> FALSE, message |-> "Document not found"]
    ELSE IF denied
           THEN [success |-> FALSE,
                 message |-> "Access denied: You can only delete your own documents"]
    ELSE IF noData THEN [success |-> FALSE, message |-> "Failed to delete document"]
    ELSE IF noTable THEN [success |-> FALSE, message |-> "Database error"]
    ELSE [success |-> TRUE, message |-> "Document deleted successfully"]

\* delete_document(doc_id, user_id): o1 is the outcome of the primary select
\* made by its get_document, o2 of its primary delete
DeleteDocument(doc_id, user_id, o1, o2) ==
    LET r == get_document(SUPABASE_AVAILABLE, localDb, doc_id, o1)
        found == r.doc # NoDoc
        denied == found /\ OwnershipDenied(r.doc, user_id)
        proceed == found /\ ~denied
        primary == proceed /\ UsePrimary(r.avail)
        inPrimary == SupaSelect(doc_id) # {}
        primaryDeleted == primary /\ o2 = "ok" /\ inPrimary
        primaryNoData == primary /\ (o2 = "nodata" \/ (o2 = "ok" /\ ~inPrimary))
        opened == proceed /\ ~primaryDeleted /\ ~primaryNoData
        db == IF opened THEN _sqlite_connection(r.db) ELSE r.db
        sqliteDelete == opened /\ db.table
    IN /\ ~UsePrimary(SUPABASE_AVAILABLE) => o1 = "ok"
       /\ ~primary => o2 = "ok"
       /\ SUPABASE_AVAILABLE' =
              (IF primary THEN _handle_supabase_failure(r.avail, o2) ELSE r.avail)
       /\ localDb' = db
       /\ supaDocs' = IF primaryDeleted THEN supaDocs \ SupaSelect(doc_id) ELSE supaDocs
       /\ sqliteDocs' = IF sqliteDelete THEN sqliteDocs \ SqliteSelect(doc_id) ELSE sqliteDocs
       /\ last' = [op |-> "delete_document", doc_id |-> doc_id, user_id |-> user_id,
                   result |-> IF ~found THEN "not_found"
                              ELSE IF denied THEN "denied"
                              ELSE IF primaryNoData \/ (opened /\ ~db.table) THEN "failed"
                              ELSE "deleted",
                   reply |-> DeleteReply(found, denied, primaryNoData, opened /\ ~db.table),
                   storage |-> IF primaryDeleted THEN "supabase"
                               ELSE IF sqliteDelete THEN "sqlite" ELSE "none",
                   fetched |-> r.doc, listed |-> <<>>,
                   calls |-> r.calls + (IF primary THEN 1 ELSE 0),
                   raised |-> r.raised \/ (primary /\ o2 = "raise"),
                   local |-> LocalUse(r.opened \/ opened, db),
                   pre |-> PreDocs]
       /\ UNCHANGED <<nextSupaDocId, nextSqliteDocId>>
       /\ UNCHANGED <<downloads, files>>
       /\ UNCHANGED <<quizVars, attemptVars, schema, procs, request>>

DocIds == 1 .. (MaxDocs + MaxLocalAtStart)

\* limit as the callers pass it: absent, 0 and a limit below the row count
Limits == {NoLimit, 0, 1}

OpSaveDocumentSession ==
    \E u \in Users \cup {Null}, t \in Topics, o \in Outcomes : SaveDocumentSession(u, t, o)
OpGetDocument ==
    \E d \in DocIds, o \in ReadOutcomes : GetDocument(d, o)
OpGetUserDocuments ==
    \E u \in Users \cup {Null, ""}, l \in Limits, o \in ReadOutcomes :
        GetUserDocuments(u, l, o)
OpDeleteDocument ==
    \E d \in DocIds, u \in Users \cup {Null}, o1 \in ReadOutcomes, o2 \in Outcomes :
        DeleteDocument(d, u, o1, o2)

\* no document downloaded yet, no file uploaded yet
NoDownloadsNoFiles ==
    /\ downloads = [supabase |-> [d \in DocIds |-> 0], sqlite |-> [d \in DocIds |-> 0]]
    /\ files = [supabase |-> {}, local |-> {}, uploads |-> 0]

\* tables no document operation touches
EmptyQuizTables ==
    /\ quizzes = {} /\ questions = {} /\ options = {} /\ quiz_questions = {}
    /\ nextQuizId = 1 /\ nextQuestionId = 1
EmptyAttemptTables ==
    /\ user_quizzes = {} /\ user_answers = {}
    /\ nextUserQuizId = 1

\* module import: _init_supabase() probes the primary (either result) and
\* `if not SUPABASE_AVAILABLE: _init_local_storage()' follows; the primary
\* table starts empty for this deployment, and local_documents.db may be
\* missing or may hold documents a previous run saved while the primary was
\* down
InitDoc ==
    /\ SUPABASE_AVAILABLE \in BOOLEAN
    /\ supaDocs = {}
    /\ nextSupaDocId = 1
    /\ NoDownloadsNoFiles
    /\ \E n \in 0 .. MaxLocalAtStart :
          /\ \E owner \in [1 .. n -> Users] :
                sqliteDocs = {[doc_id |-> i, user_id |-> owner[i], topic |-> "Cats"] : i \in 1 .. n}
          /\ nextSqliteDocId = n + 1
          /\ \E before \in {NoLocalDb, ReadyLocalDb} :
                /\ n > 0 => before = ReadyLocalDb
                /\ localDb = IF SUPABASE_AVAILABLE THEN before
                             ELSE _init_local_storage(before)
    /\ EmptyQuizTables
    /\ EmptyAttemptTables
    /\ schema = [options_check |-> TRUE, attempt_unique |-> TRUE]
    /\ procs = <<>>
    /\ request = NoCall
    /\ last = NoCall

NextDoc ==
    \/ OpSaveDocumentSession
    \/ OpGetDocument
    \/ OpGetUserDocuments
    \/ OpDeleteDocument

SpecDoc == InitDoc /\ [][NextDoc]_vars

\* the process starts again: the module is imported, _init_supabase() probes
\* the primary and `if not SUPABASE_AVAILABLE: _init_local_storage()' runs on
\* whatever local_documents.db holds
ImportModule(probe) ==
    /\ SUPABASE_AVAILABLE' = probe
    /\ localDb' = IF probe THEN localDb ELSE _init_local_storage(localDb)
    /\ sqliteDocs' = IF probe THEN sqliteDocs ELSE CreateTableIfNotExists(localDb, sqliteDocs)
    /\ last' = [op |-> "import", doc_id |-> 0, user_id |-> Null,
                result |-> "imported", storage |-> "none",
                fetched |-> NoDoc, listed |-> <<>>,
                calls |-> 1, raised |-> ~probe,
                local |-> LocalUse(~probe, _init_local_storage(localDb)),
                pre |-> PreDocs]
    /\ UNCHANGED <<supaDocs, nextSupaDocId, nextSqliteDocId, downloads, files>>
    /\ UNCHANGED <<quizVars, attemptVars, schema, procs, request>>

OpImportModule == \E probe \in BOOLEAN : ImportModule(probe)

\* the document operations of a process that may be started again
NextLocal ==
    \/ OpSaveDocumentSession
    \/ OpGetDocument
    \/ OpGetUserDocuments
    \/ OpDeleteDocument
    \/ OpImportModule

SpecLocal == InitDoc /\ [][NextLocal]_vars

----------------------------------------------------------------------------
(* Download counts and the file storage: supabase_client.py *)

\* downloads counted per document, uploads per run
MaxDownloads == 1
MaxUploads == 1

\* unique_filename = upload_<user_id>_<timestamp>.<ext>
FileNames == Users \X (1 .. MaxUploads)

\* increment_download_count(doc_id) on the tables as the caller left them:
\* get_document (outcome o1 of its primary read), then the update of
\* media.download_count on the primary (outcome o2), which writes the count
\* get_document reported plus one, or the UPDATE in SQLite.  An exception of
\* the primary update is caught by the function's own except block.
increment_download_count(avail, db0, doc_id, o1, o2) ==
    LET g == get_document(avail, db0, doc_id, o1)
        found == g.doc # NoDoc
        primary == found /\ UsePrimary(g.avail)
        updated == primary /\ o2 = "ok" /\ \E d \in supaDocs : d.doc_id = doc_id
        local == found /\ ~primary
        db == IF local THEN _sqlite_connection(g.db) ELSE g.db
        counted == local /\ db.table /\ \E d \in sqliteDocs : d.doc_id = doc_id
    IN [found |-> found, primary |-> primary, updated |-> updated, local |-> local,
        counted |-> counted, avail |-> g.avail, db |-> db, doc |-> g.doc,
        opened |-> g.opened \/ local,
        success |-> found /\ (updated \/ (local /\ db.table)),
        downloads |-> IF updated
                        THEN [downloads EXCEPT !.supabase[doc_id] = g.doc.download_count + 1]
                        ELSE IF counted
                               THEN [downloads EXCEPT !.sqlite[doc_id] = @ + 1]
                               ELSE downloads,
        calls |-> g.calls + (IF primary THEN 1 ELSE 0),
        raised |-> g.raised \/ (primary /\ o2 = "raise")]

\* increment_download_count(doc_id) as an operation
IncrementDownloadCount(doc_id, o1, o2) ==
    LET r == increment_download_count(SUPABASE_AVAILABLE, localDb, doc_id, o1, o2)
    IN /\ ~r.primary => o2 = "ok"
       /\ r.updated => downloads.supabase[doc_id] < MaxDownloads
       /\ r.counted => downloads.sqlite[doc_id] < MaxDownloads
       /\ SUPABASE_AVAILABLE' = r.avail
       /\ localDb' = r.db
       /\ downloads' = r.downloads
       /\ last' = [op |-> "increment_download_count", doc_id |-> doc_id,
                   user_id |-> Null,
                   result |-> IF ~r.found THEN "notfound"
                              ELSE IF r.success THEN "updated" ELSE "failed",
                   storage |-> IF r.updated THEN "supabase"
                               ELSE IF r.local THEN "sqlite" ELSE "none",
                   fetched |-> r.doc, listed |-> <<>>,
                   calls |-> r.calls,
                   raised |-> r.raised,
                   local |-> LocalUse(r.opened, r.db),
                   pre |-> PreDocs]
       /\ UNCHANGED <<supaDocs, sqliteDocs, nextSupaDocId, nextSqliteDocId, files>>
       /\ UNCHANGED <<quizVars, attemptVars, schema, procs, request>>

\* what get_document_with_download_tracking returns: `if document:
\* increment_download_count(doc_id); return document', else None
TrackedDocumentMut(document, incremented) == IF incremented THEN document ELSE NoDoc
TrackedDocument(document, incremented) == document

\* get_document_with_download_tracking(doc_id): o1 is the outcome of the
\* primary select of its own get_document, o2 and o3 those of the primary
\* select and of the primary update made by increment_download_count
GetDocumentWithDownloadTracking(doc_id, o1, o2, o3) ==
    LET g == get_document(SUPABASE_AVAILABLE, localDb, doc_id, o1)
        found == g.doc # NoDoc
        r == increment_download_count(g.avail, g.db, doc_id, o2, o3)
    IN /\ ~(found /\ UsePrimary(g.avail)) => o2 = "ok"
       /\ ~(found /\ r.primary) => o3 = "ok"
       /\ (found /\ r.updated) => downloads.supabase[doc_id] < MaxDownloads
       /\ (found /\ r.counted) => downloads.sqlite[doc_id] < MaxDownloads
       /\ SUPABASE_AVAILABLE' = IF found THEN r.avail ELSE g.avail
       /\ localDb' = IF found THEN r.db ELSE g.db
       /\ downloads' = IF found THEN r.downloads ELSE downloads
       /\ last' = [op |-> "get_document_with_download_tracking", doc_id |-> doc_id,
                   user_id |-> Null,
                   result |-> IF ~found THEN "not_found" ELSE "found",
                   storage |-> IF found /\ r.updated THEN "supabase"
                               ELSE IF found /\ r.counted THEN "sqlite" ELSE "none",
                   fetched |-> IF found THEN TrackedDocument(g.doc, r.success) ELSE NoDoc,
                   listed |-> <<>>,
                   calls |-> g.calls + (IF found THEN r.calls ELSE 0),
                   raised |-> g.raised \/ (found /\ r.raised),
                   local |-> LocalUse(g.opened \/ (found /\ r.opened),
                                      IF found THEN r.db ELSE g.db),
                   first |-> o1,
                   incremented |-> found /\ r.success,
                   pre |-> PreDocs]
       /\ UNCHANGED <<supaDocs, sqliteDocs, nextSupaDocId, nextSqliteDocId, files>>
       /\ UNCHANGED <<quizVars, attemptVars, schema, procs, request>>

\* get_summary_file_content(filename): the bucket download when the primary
\* is in use, else the local file; every exception gives None
GetSummaryFileContent(filename, o) ==
    LET primary == UsePrimary(SUPABASE_AVAILABLE)
        content == IF primary THEN o = "ok" /\ filename \in files.supabase
                   ELSE filename \in files.local
    IN /\ ~primary => o = "ok"
       /\ last' = [op |-> "get_summary_file_content", doc_id |-> 0,
                   user_id |-> filename[1],
                   result |-> IF content THEN "content" ELSE "none",
                   storage |-> IF ~content THEN "none"
                               ELSE IF primary THEN "supabase" ELSE "sqlite",
                   fetched |-> NoDoc, listed |-> <<>>,
                   calls |-> IF primary THEN 1 ELSE 0,
                   raised |-> primary /\ o = "raise",
                   pre |-> PreDocs]
       /\ UNCHANGED <<docVars, quizVars, attemptVars, schema, procs, request>>

\* save_uploaded_file_to_storage(file_content, filename, user_id): the bucket
\* upload when the primary is in use; a falsy response falls through to the
\* local directory, an exception gives the failure result
SaveUploadedFileToStorage(user_id, o) ==
    LET primary == UsePrimary(SUPABASE_AVAILABLE)
        name == <<user_id, files.uploads + 1>>
        uploaded == primary /\ o = "ok"
        failed == primary /\ o = "raise"
    IN /\ files.uploads < MaxUploads
       /\ ~primary => o = "ok"
       /\ files' = [supabase |-> IF uploaded THEN files.supabase \cup {name}
                                 ELSE files.supabase,
                    local |-> IF ~uploaded /\ ~failed THEN files.local \cup {name}
                              ELSE files.local,
                    uploads |-> files.uploads + 1]
       /\ last' = [op |-> "save_uploaded_file_to_storage", doc_id |-> 0,
                   user_id |-> user_id,
                   result |-> IF failed THEN "failed" ELSE "saved",
                   storage |-> IF uploaded THEN "supabase"
                               ELSE IF failed THEN "none" ELSE "sqlite",
                   fetched |-> NoDoc, listed |-> <<>>,
                   calls |-> IF primary THEN 1 ELSE 0,
                   raised |-> failed,
                   pre |-> PreDocs]
       /\ UNCHANGED <<SUPABASE_AVAILABLE, supaDocs, sqliteDocs, nextSupaDocId,
                      nextSqliteDocId, downloads, localDb>>
       /\ UNCHANGED <<quizVars, attemptVars, schema, procs, request>>

OpIncrementDownloadCount ==
    \E d \in DocIds, o1 \in ReadOutcomes, o2 \in Outcomes : IncrementDownloadCount(d, o1, o2)
OpGetSummaryFileContent ==
    \E f \in FileNames, o \in ReadOutcomes : GetSummaryFileContent(f, o)
OpSaveUploadedFileToStorage ==
    \E u \in Users, o \in Outcomes : SaveUploadedFileToStorage(u, o)
OpGetDocumentWithDownloadTracking ==
    \E d \in DocIds, o1 \in ReadOutcomes, o2 \in ReadOutcomes, o3 \in Outcomes :
        GetDocumentWithDownloadTracking(d, o1, o2, o3)

\* the document operations together with the download and file operations
NextStore ==
    \/ OpSaveDocumentSession
    \/ OpGetDocument
    \/ OpIncrementDownloadCount
    \/ OpGetDocumentWithDownloadTracking
    \/ OpGetSummaryFileContent
    \/ OpSaveUploadedFileToStorage

SpecStore == InitDoc /\ [][NextStore]_vars

----------------------------------------------------------------------------
(* Quiz creation and retrieval: quiz_database.py, main.py *)

\* topic[:255]
TOPIC_MAX == 255
TruncateMut(topic) == topic
Truncate(topic) == SubSeq(topic, 1, IF Len(topic) < TOPIC_MAX THEN Len(topic) ELSE TOPIC_MAX)

\* the letters an options row may carry
ValidOptions == {"A", "B", "C", "D"}

\* question inputs: the text and the correct letter (the four option texts
\* are stored and returned verbatim and are left out)
QuestionTexts == {"2+2?", "3+3?"}
CorrectOptions == {"B", "E"}
QuestionInputs == [question_text : QuestionTexts, correct_option : CorrectOptions]
QuizTopics == {<<"M", "a", "t", "h">>}
QuizUsers == {"u1"}

\* quizzes created per run, questions per quiz
MaxQuizzes == 2
MaxQuestions == 2

QuestionLists == UNION {[1 .. n -> QuestionInputs] : n \in 0 .. MaxQuestions}

\* total_questions of a quiz row inserted without one
NoTotal == 0 - 1

\* The backend calls of one creation, in program order:
\*   step 1                 insert into quizzes
\*   steps 3k-1, 3k, 3k+1   insert question k, its options row, its link
\* failAt = 0: no call fails; failAt = s: call s fails (it raises, or it
\* returns no rows: either way the function ends with a failure result) and
\* the calls after it are not made.
QuestionStep(k) == 3 * k - 1
OptionsStep(k) == 3 * k
LinkStep(k) == 3 * k + 1
LastStep(qs) == 3 * Len(qs) + 1
Done(failAt, s) == failAt = 0 \/ s < failAt

\* the CHECK on options.correct_option, when the schema has it, makes the
\* options insert of a question with another letter raise
FirstInvalid(qs) ==
    IF \E k \in 1 .. Len(qs) : qs[k].correct_option \notin ValidOptions
      THEN CHOOSE k \in 1 .. Len(qs) :
              /\ qs[k].correct_option \notin ValidOptions
              /\ \A j \in 1 .. (k - 1) : qs[j].correct_option \in ValidOptions
      ELSE 0
SchemaAllows(qs, failAt) ==
    (schema.options_check /\ FirstInvalid(qs) # 0) =>
        /\ failAt # 0
        /\ failAt <= OptionsStep(FirstInvalid(qs))

PreQuiz == [quizzes |-> quizzes, questions |-> questions, options |-> options,
            quiz_questions |-> quiz_questions]

\* rows the calls made before failAt have inserted
QuestionRows(qs, failAt) ==
    {[question_id |-> nextQuestionId + k - 1, question_text |-> qs[k].question_text] :
        k \in {j \in 1 .. Len(qs) : Done(failAt, QuestionStep(j))}}
OptionsRows(qs, failAt) ==
    {[question_id |-> nextQuestionId + k - 1, correct_option |-> qs[k].correct_option] :
        k \in {j \in 1 .. Len(qs) : Done(failAt, OptionsStep(j))}}
LinkRowsMut(qs, failAt, quiz_id) ==
    {[quiz_id |-> quiz_id, question_id |-> nextQuestionId + k - 1,
      question_order |-> Len(qs) + 1 - k, max_marks |-> 1] :
        k \in {j \in 1 .. Len(qs) : Done(failAt, LinkStep(j))}}
LinkRows(qs, failAt, quiz_id) ==
    {[quiz_id |-> quiz_id, question_id |-> nextQuestionId + k - 1,
      question_order |-> k, max_marks |-> 1] :
        k \in {j \in 1 .. Len(qs) : Done(failAt, LinkStep(j))}}

\* save_quiz_to_database_supabase(topic, questions_data, None, user_id):
\* each insert is committed on its own; a failing call ends the function
\* with a failure result and nothing is undone
SaveQuizSupabase(topic, qs, user_id, failAt) ==
    /\ failAt \in 0 .. LastStep(qs)
    /\ SchemaAllows(qs, failAt)
    /\ IF Done(failAt, 1)
         THEN /\ quizzes' = quizzes \cup
                   {[quiz_id |-> nextQuizId, user_id |-> EffectiveUser(user_id),
                     topic |-> Truncate(topic), total_questions |-> Len(qs)]}
              /\ questions' = questions \cup QuestionRows(qs, failAt)
              /\ options' = options \cup OptionsRows(qs, failAt)
              /\ quiz_questions' = quiz_questions \cup LinkRows(qs, failAt, nextQuizId)
              /\ nextQuestionId' = nextQuestionId + Cardinality(QuestionRows(qs, failAt))
         ELSE UNCHANGED <<quizzes, questions, options, quiz_questions, nextQuestionId>>
    /\ nextQuizId' = nextQuizId + 1
    /\ last' = [op |-> "save_quiz_to_database", path |-> "supabase",
                topic |-> topic, questions |-> qs, user_id |-> user_id,
                result |-> IF failAt = 0 THEN "saved" ELSE "failed",
                quiz_id |-> nextQuizId, failAt |-> failAt, pre |-> PreQuiz]
    /\ UNCHANGED <<docVars, attemptVars, schema, procs, request>>

\* save_quiz_to_database_manual(topic, questions_data, None, user_id, conn):
\* BEGIN ... COMMIT on one connection; any failing statement leads to
\* ROLLBACK (the sequences keep what the transaction drew from them)
SaveQuizManual(topic, qs, user_id, failAt) ==
    /\ failAt \in 0 .. LastStep(qs)
    /\ SchemaAllows(qs, failAt)
    /\ IF failAt = 0
         THEN /\ quizzes' = quizzes \cup
                   {[quiz_id |-> nextQuizId, user_id |-> EffectiveUser(user_id),
                     topic |-> Truncate(topic), total_questions |-> Len(qs)]}
              /\ questions' = questions \cup QuestionRows(qs, 0)
              /\ options' = options \cup OptionsRows(qs, 0)
              /\ quiz_questions' = quiz_questions \cup LinkRows(qs, 0, nextQuizId)
         ELSE UNCHANGED <<quizzes, questions, options, quiz_questions>>
    /\ nextQuizId' = nextQuizId + 1
    /\ nextQuestionId' = nextQuestionId + Cardinality(QuestionRows(qs, failAt))
    /\ last' = [op |-> "save_quiz_to_database", path |-> "manual",
                topic |-> topic, questions |-> qs, user_id |-> user_id,
                result |-> IF failAt = 0 THEN "saved" ELSE "failed",
                quiz_id |-> nextQuizId, failAt |-> failAt, pre |-> PreQuiz]
    /\ UNCHANGED <<docVars, attemptVars, schema, procs, request>>

\* generate_quiz_api, from the validation of the generated questions to the
\* response: the questions must be a non-empty list with letters A-D, the
\* rows are inserted call by call, and on a failure after the quiz row the
\* handler deletes the quiz's links (outcome c1) and then its quiz row
\* (outcome c2) before answering 500; an outcome of a call that is not made
\* is fixed to "ok"
GeneratedOk(qs) == qs # <<>> /\ FirstInvalid(qs) = 0

\* max_marks = question_data.get("marks", 1)
MarksOf(question_data) ==
    IF "marks" \in DOMAIN question_data THEN question_data.marks ELSE 1
ApiLinkRows(qs, failAt, quiz_id) ==
    {[quiz_id |-> quiz_id, question_id |-> nextQuestionId + k - 1,
      question_order |-> k, max_marks |-> MarksOf(qs[k])] :
        k \in {j \in 1 .. Len(qs) : Done(failAt, LinkStep(j))}}
GenerateQuizWrites(topic, qs, user_id, failAt, c1, c2) ==
    LET created == GeneratedOk(qs) /\ Done(failAt, 1)
        failed == GeneratedOk(qs) /\ failAt # 0
        linksCleaned == created /\ failed /\ c1 = "ok"
        quizCleaned == linksCleaned /\ c2 = "ok"
        row == [quiz_id |-> nextQuizId, user_id |-> user_id,
                topic |-> topic, total_questions |-> NoTotal]
    IN /\ failAt \in 0 .. LastStep(qs)
       /\ ~GeneratedOk(qs) => failAt = 0
       /\ ~(created /\ failed) => c1 = "ok"
       /\ ~linksCleaned => c2 = "ok"
       /\ quizzes' = IF created /\ ~quizCleaned THEN quizzes \cup {row} ELSE quizzes
       /\ questions' = IF created THEN questions \cup QuestionRows(qs, failAt) ELSE questions
       /\ options' = IF created THEN options \cup OptionsRows(qs, failAt) ELSE options
       /\ quiz_questions' = IF created /\ ~linksCleaned
                              THEN quiz_questions \cup ApiLinkRows(qs, failAt, nextQuizId)
                              ELSE quiz_questions
       /\ nextQuizId' = nextQuizId + 1
       /\ nextQuestionId' = IF created
                              THEN nextQuestionId + Cardinality(QuestionRows(qs, failAt))
                              ELSE nextQuestionId

\* the request and its answer
GenerateQuizCall(topic, qs, user_id, failAt) ==
    [op |-> "generate_quiz_api", path |-> "supabase",
     topic |-> topic, questions |-> qs, user_id |-> user_id,
     result |-> IF ~GeneratedOk(qs) THEN "rejected"
                ELSE IF failAt = 0 THEN "saved" ELSE "failed",
     quiz_id |-> nextQuizId, failAt |-> failAt, pre |-> PreQuiz]

GenerateQuizApi(topic, qs, user_id, failAt, c1, c2) ==
    /\ GenerateQuizWrites(topic, qs, user_id, failAt, c1, c2)
    /\ last' = GenerateQuizCall(topic, qs, user_id, failAt)
    /\ UNCHANGED <<docVars, attemptVars, schema, procs, request>>

\* the links of a quiz as a sequence in question_order
RECURSIVE SortByOrder(_)
SortByOrder(links) ==
    IF links = {} THEN <<>>
    ELSE LET first == CHOOSE l \in links :
                          \A m \in links : l.question_order <= m.question_order
         IN <<first>> \o SortByOrder(links \ {first})

NoQuiz == [found |-> FALSE, quiz_id |-> 0, topic |-> <<>>, questions |-> <<>>]

\* get_quiz_by_id_supabase(quiz_id) reading the options rows opts: None
\* without a quiz row or without links; a link whose question or options
\* row is missing is skipped
QuizOver(opts, quiz_id) ==
    LET rows == {q \in quizzes : q.quiz_id = quiz_id}
        links == {l \in quiz_questions : l.quiz_id = quiz_id}
        complete == {l \in links :
                        /\ \E q \in questions : q.question_id = l.question_id
                        /\ \E o \in opts : o.question_id = l.question_id}
        entry(l) ==
            [question_id |-> l.question_id,
             question_text |->
                (CHOOSE q \in questions : q.question_id = l.question_id).question_text,
             correct_option |->
                (CHOOSE o \in opts : o.question_id = l.question_id).correct_option,
             question_order |-> l.question_order,
             max_marks |-> l.max_marks]
        ordered == SortByOrder(complete)
    IN IF rows = {} \/ links = {} THEN NoQuiz
       ELSE [found |-> TRUE, quiz_id |-> quiz_id,
             topic |-> (CHOOSE q \in rows : TRUE).topic,
             questions |-> [i \in 1 .. Len(ordered) |-> entry(ordered[i])]]

get_quiz_by_id_supabase(quiz_id) == QuizOver(options, quiz_id)

\* get_quiz_by_id(quiz_id) over SQL, reading the options rows opts: the
\* three-table join ordered by question_order; None without a quiz row or
\* without joined rows
QuizOverSql(opts, quiz_id) ==
    LET r == QuizOver(opts, quiz_id)
    IN IF r.found /\ r.questions = <<>> THEN NoQuiz ELSE r
get_quiz_by_id(quiz_id) == QuizOverSql(options, quiz_id)

OpSaveQuizSupabase ==
    /\ nextQuizId <= MaxQuizzes
    /\ \E t \in QuizTopics, qs \in QuestionLists, u \in QuizUsers,
       failAt \in 0 .. (3 * MaxQuestions + 1) :
        SaveQuizSupabase(t, qs, u, failAt)
OpSaveQuizManual ==
    /\ nextQuizId <= MaxQuizzes
    /\ \E t \in QuizTopics, qs \in QuestionLists, u \in QuizUsers,
       failAt \in 0 .. (3 * MaxQuestions + 1) :
        SaveQuizManual(t, qs, u, failAt)

OpGenerateQuizApi ==
    /\ nextQuizId <= MaxQuizzes
    /\ \E t \in QuizTopics, qs \in QuestionLists, u \in QuizUsers,
       failAt \in 0 .. (3 * MaxQuestions + 1), c1 \in ReadOutcomes, c2 \in ReadOutcomes :
        GenerateQuizApi(t, qs, u, failAt, c1, c2)

\* an empty database; the schema may or may not carry the CHECK
InitQuiz ==
    /\ SUPABASE_AVAILABLE = TRUE
    /\ supaDocs = {} /\ sqliteDocs = {}
    /\ nextSupaDocId = 1 /\ nextSqliteDocId = 1
    /\ NoDownloadsNoFiles
    /\ localDb = NoLocalDb
    /\ EmptyQuizTables
    /\ EmptyAttemptTables
    /\ schema \in {sc \in Schemas : sc.attempt_unique}
    /\ procs = <<>>
    /\ request = NoCall
    /\ last = NoCall

\* save_quiz_to_database: without a PostgreSQL connection the Supabase
\* variant runs, with one (the stored procedure failing) the manual one
NextQuizDb ==
    \/ OpSaveQuizSupabase
    \/ OpSaveQuizManual

SpecQuizDb == InitQuiz /\ [][NextQuizDb]_vars

\* the quiz-creating operations of quiz_database.py and main.py
NextQuiz ==
    \/ OpSaveQuizSupabase
    \/ OpSaveQuizManual
    \/ OpGenerateQuizApi

SpecQuiz == InitQuiz /\ [][NextQuiz]_vars

----------------------------------------------------------------------------
(* save_quiz_to_database on a PostgreSQL connection, call by call *)

\* save_quiz_to_database_manual binds `cursor' inside its try block: when
\* conn.cursor() raises (c2) the except block's cursor.execute("ROLLBACK;")
\* raises UnboundLocalError, and when a statement fails (failAt) and the
\* ROLLBACK raises too (rollback), that exception leaves the except block
ManualRaises(c2, failAt, rollback) ==
    c2 = "raise" \/ (failAt # 0 /\ rollback = "raise")

\* save_quiz_to_database: its own conn.cursor() (c1) is inside the try block
\* too and `finally: cursor.close()' raises UnboundLocalError when it failed;
\* an exception of the manual method, called in the except block, propagates
WrapperRaises(c1, manualRaises) == c1 = "raise" \/ manualRaises

\* save_quiz_to_database(topic, questions_data, None, user_id) when
\* get_db_connection returned a connection and the create_complete_quiz call
\* does not return (cursor creation c1 or the execute raises): the manual
\* method runs on the same connection.  Rows are kept only when its
\* transaction commits.
SaveQuizToDatabase(topic, qs, user_id, c1, c2, failAt, rollback) ==
    LET committed == c2 = "ok" /\ failAt = 0
        raised == WrapperRaises(c1, ManualRaises(c2, failAt, rollback))
    IN /\ failAt \in 0 .. LastStep(qs)
       /\ c2 = "ok" => SchemaAllows(qs, failAt)
       /\ c2 = "raise" => failAt = 0
       /\ (c2 = "raise" \/ failAt = 0) => rollback = "ok"
       /\ IF committed
            THEN /\ quizzes' = quizzes \cup
                      {[quiz_id |-> nextQuizId, user_id |-> EffectiveUser(user_id),
                        topic |-> Truncate(topic), total_questions |-> Len(qs)]}
                 /\ questions' = questions \cup QuestionRows(qs, 0)
                 /\ options' = options \cup OptionsRows(qs, 0)
                 /\ quiz_questions' = quiz_questions \cup LinkRows(qs, 0, nextQuizId)
                 /\ nextQuestionId' = nextQuestionId + Len(qs)
            ELSE UNCHANGED <<quizzes, questions, options, quiz_questions, nextQuestionId>>
       /\ nextQuizId' = nextQuizId + 1
       /\ last' = [op |-> "save_quiz_to_database", path |-> "manual",
                   questions |-> qs, user_id |-> user_id,
                   result |-> IF raised THEN "raised"
                              ELSE IF committed THEN "saved" ELSE "failed",
                   quiz_id |-> nextQuizId, failAt |-> failAt, pre |-> PreQuiz,
                   cursors |-> <<c1, c2>>, rollback |-> rollback]
       /\ UNCHANGED <<docVars, attemptVars, schema, procs, request>>

OpSaveQuizToDatabase ==
    /\ nextQuizId <= MaxQuizzes
    /\ \E t \in QuizTopics, qs \in QuestionLists, u \in QuizUsers,
          c1 \in ReadOutcomes, c2 \in ReadOutcomes,
          failAt \in 0 .. (3 * MaxQuestions + 1), rollback \in ReadOutcomes :
           SaveQuizToDatabase(t, qs, u, c1, c2, failAt, rollback)

NextCalls == OpSaveQuizToDatabase

SpecCalls == InitQuiz /\ [][NextCalls]_vars

----------------------------------------------------------------------------
(* Scoring and attempts: main.py submit_quiz, quiz_database.py *)

\* answers per submission; copies save_quiz_with_title may create
MaxAnswers == 1
MaxCopies == 1

\* `percentage = (score / total_marks) * 100 if total_marks > 0 else 0' as
\* the exact fraction num/den
Percentage(score, total_marks) ==
    IF total_marks > 0 THEN [num |-> score * 100, den |-> total_marks]
    ELSE [num |-> 0, den |-> 1]

\* round(percentage, 2) in hundredths: the nearest hundredth, a tie going to
\* the even one (a tie needs total_marks to be a multiple of 32, where the
\* value is a dyadic fraction and the float is exact)
Round2(p) ==
    LET n == p.num * 100
        q == n \div p.den
        r == n % p.den
    IN IF 2 * r < p.den THEN q
       ELSE IF 2 * r > p.den THEN q + 1
       ELSE IF q % 2 = 0 THEN q ELSE q + 1

\* a fraction and a number of hundredths denote the same value
SameValue(p, hundredths) == p.num * 100 = hundredths * p.den

\* one entry of request.answers: "keys" are the keys the dict carries
AnswerKeys == {"question_id", "selected_option"}

\* submit_quiz, `# Calculate score': the score and the user_answers list,
\* or an error when an answer lacks a key (KeyError, answered as HTTP 500).
\* `quiz' is the value get_quiz_by_id returned.
CorrectAnswer(quiz, question_id) ==
    IF \E i \in 1 .. Len(quiz.questions) : quiz.questions[i].question_id = question_id
      THEN (quiz.questions[CHOOSE i \in 1 .. Len(quiz.questions) :
               /\ quiz.questions[i].question_id = question_id
               /\ \A j \in (i + 1) .. Len(quiz.questions) :
                     quiz.questions[j].question_id # question_id]).correct_option
      ELSE Null
IsCorrect(quiz, answer) ==
    answer.selected_option = CorrectAnswer(quiz, answer.question_id)
CalculateScore(quiz, answers) ==
    IF \E i \in 1 .. Len(answers) : answers[i].keys # AnswerKeys
      THEN [error |-> TRUE, score |-> 0, total_marks |-> 0, user_answers |-> <<>>]
      ELSE [error |-> FALSE,
            score |-> Cardinality({i \in 1 .. Len(answers) : IsCorrect(quiz, answers[i])}),
            total_marks |-> Len(quiz.questions),
            user_answers |->
               [i \in 1 .. Len(answers) |->
                   [question_id |-> answers[i].question_id,
                    selected_option |-> answers[i].selected_option,
                    awarded_marks |-> IF IsCorrect(quiz, answers[i]) THEN 1 ELSE 0]]]

\* `SELECT user_quiz_id FROM user_quizzes WHERE user_id = .. AND quiz_id = ..'
ExistingAttemptMut(rows, user_id, quiz_id) == {}
ExistingAttempt(rows, user_id, quiz_id) ==
    {r \in rows : r.user_id = user_id /\ r.quiz_id = quiz_id}

\* `DELETE FROM user_answers WHERE user_quiz_id = ..'
DeleteAnswersMut(rows, user_quiz_id) == rows
DeleteAnswers(rows, user_quiz_id) == {a \in rows : a.user_quiz_id # user_quiz_id}

\* one user_answers insert; n orders the rows of an attempt as the serial
\* primary key does
InsertAnswerMut(rows, user_quiz_id, answer) == rows
InsertAnswer(rows, user_quiz_id, answer) ==
    LET mine == {a.n : a \in {b \in rows : b.user_quiz_id = user_quiz_id}}
        top == IF mine = {} THEN 0 ELSE CHOOSE m \in mine : \A k \in mine : k <= m
    IN rows \cup {[user_quiz_id |-> user_quiz_id, n |-> top + 1,
                   question_id |-> answer.question_id,
                   selected_option |-> answer.selected_option,
                   awarded_marks |-> answer.awarded_marks]}

RECURSIVE InsertAnswers(_, _, _, _)
InsertAnswers(rows, user_quiz_id, answers, count) ==
    IF count = 0 THEN rows
    ELSE InsertAnswer(InsertAnswers(rows, user_quiz_id, answers, count - 1),
                      user_quiz_id, answers[count])

\* the answers of an attempt in insertion order, without the row identity
RECURSIVE AnswersInOrder(_)
AnswersInOrder(rows) ==
    IF rows = {} THEN <<>>
    ELSE LET first == CHOOSE a \in rows : \A b \in rows : a.n <= b.n
         IN <<[question_id |-> first.question_id,
               selected_option |-> first.selected_option,
               awarded_marks |-> first.awarded_marks]>>
            \o AnswersInOrder(rows \ {first})
AnswersOf(user_quiz_id) ==
    AnswersInOrder({a \in user_answers : a.user_quiz_id = user_quiz_id})

\* the attempt row written by UPDATE (existing) or INSERT (new), with its
\* completed_at
StampedRow(user_quiz_id, user_id, quiz_id, total_marks, score, completed_at) ==
    [user_quiz_id |-> user_quiz_id, user_id |-> user_id, quiz_id |-> quiz_id,
     total_marks |-> total_marks, score |-> score,
     percentage |-> Round2(Percentage(score, total_marks)),
     completed_at |-> completed_at]

\* the attempt row where the time of the calls is not observed: every call
\* is made at instant 0
AttemptRow(user_quiz_id, user_id, quiz_id, total_marks, score) ==
    StampedRow(user_quiz_id, user_id, quiz_id, total_marks, score, 0)

\* what the previous call was, for a call on (user_id, quiz_id)
Previous(user_id, quiz_id) ==
    IF /\ last.op = "save_user_quiz_attempt"
       /\ last.user_id = user_id /\ last.quiz_id = quiz_id
      THEN [saved |-> last.result = "saved", answers |-> last.answers]
      ELSE [saved |-> FALSE, answers |-> <<>>]

\* The calls of save_user_quiz_attempt_supabase in program order: 1 select
\* the existing attempt; 2 update it / insert a new one; with an existing
\* attempt 3 delete its answers; then one insert per answer.  failAt as for
\* quiz creation; every call is committed on its own.
AnswerBase(existed) == IF existed THEN 3 ELSE 2
\* completed_at of the row written at `now': the manual UPDATE sets
\* completed_at = NOW(), the Supabase-client update leaves the column as it
\* is, and an INSERT names no completed_at (the column's default, the time
\* of the insert)
CompletedAt(path, found, now) ==
    IF found # {} /\ path # "manual" THEN (CHOOSE r \in found : TRUE).completed_at
    ELSE now

\* the tables after the calls made up to failAt, from the tables t
AttemptTables(t, path, user_id, quiz_id, answers, total_marks, score, failAt, now) ==
    LET u == EffectiveUser(user_id)
        found == ExistingAttempt(t.user_quizzes, u, quiz_id)
        existed == found # {}
        id == IF existed THEN (CHOOSE r \in found : TRUE).user_quiz_id
              ELSE t.nextUserQuizId
        base == AnswerBase(existed)
        \* the manual path runs in one transaction: all calls or none
        upTo == IF path = "manual" /\ failAt # 0 THEN 1 ELSE failAt
        written == Done(upTo, 2)
        deleted == existed /\ Done(upTo, 3)
        inserted == IF upTo = 0 THEN Len(answers)
                    ELSE IF upTo <= base THEN 0 ELSE upTo - base - 1
        row == StampedRow(id, u, quiz_id, total_marks, score,
                          CompletedAt(path, found, now))
        kept == IF deleted THEN DeleteAnswers(t.user_answers, id) ELSE t.user_answers
    IN [user_quizzes |-> IF written
                           THEN {r \in t.user_quizzes : r.user_quiz_id # id} \cup {row}
                           ELSE t.user_quizzes,
        user_answers |-> InsertAnswers(kept, id, answers, inserted),
        nextUserQuizId |-> IF written /\ ~existed THEN t.nextUserQuizId + 1
                           ELSE t.nextUserQuizId,
        user_quiz_id |-> id]

AttemptTablesNow ==
    [user_quizzes |-> user_quizzes, user_answers |-> user_answers,
     nextUserQuizId |-> nextUserQuizId]

AttemptWritesAt(path, user_id, quiz_id, answers, total_marks, score, failAt, now) ==
    LET existed == ExistingAttempt(user_quizzes, EffectiveUser(user_id), quiz_id) # {}
        after == AttemptTables(AttemptTablesNow, path, user_id, quiz_id, answers,
                               total_marks, score, failAt, now)
    IN /\ failAt \in 0 .. (AnswerBase(existed) + Len(answers))
       /\ user_quizzes' = after.user_quizzes
       /\ user_answers' = after.user_answers
       /\ nextUserQuizId' = after.nextUserQuizId

AttemptWrites(path, user_id, quiz_id, answers, total_marks, score, failAt) ==
    AttemptWritesAt(path, user_id, quiz_id, answers, total_marks, score, failAt, 0)

\* the call and its result
AttemptCall(path, user_id, quiz_id, answers, total_marks, score, failAt) ==
    LET u == EffectiveUser(user_id)
    IN [op |-> "save_user_quiz_attempt", path |-> path,
        user_id |-> u, quiz_id |-> quiz_id, answers |-> answers,
        total_marks |-> total_marks, score |-> score,
        result |-> IF failAt = 0 THEN "saved" ELSE "failed",
        percentage |-> Percentage(score, total_marks),
        existed |-> ExistingAttempt(user_quizzes, u, quiz_id) # {},
        prev |-> Previous(u, quiz_id)]

SaveAttemptEffect(path, user_id, quiz_id, answers, total_marks, score, failAt) ==
    /\ AttemptWrites(path, user_id, quiz_id, answers, total_marks, score, failAt)
    /\ last' = AttemptCall(path, user_id, quiz_id, answers, total_marks, score, failAt)

SaveUserQuizAttempt(path, user_id, quiz_id, answers, total_marks, score, failAt) ==
    /\ SaveAttemptEffect(path, user_id, quiz_id, answers, total_marks, score, failAt)
    /\ UNCHANGED <<docVars, quizVars, schema, procs, request>>

\* submit_quiz: 404 without the quiz, else the score is calculated and the
\* attempt saved through save_user_quiz_attempt (path: the Supabase client
\* without a PostgreSQL connection, the manual transaction with one)
SubmitQuiz(path, user_id, quiz_id, answers, failAt) ==
    LET quiz == IF path = "manual" THEN get_quiz_by_id(quiz_id)
                ELSE get_quiz_by_id_supabase(quiz_id)
        calc == CalculateScore(quiz, answers)
    IN /\ quiz.found
       /\ ~calc.error
       /\ SaveUserQuizAttempt(path, user_id, quiz_id, calc.user_answers,
                              calc.total_marks, calc.score, failAt)

\* save_quiz_with_title(user_quiz_id, custom_title) for current_user.
\* Calls: 1 select the attempt, 2 select its quiz, 3 insert the new quiz,
\* 4 select the links, 5 insert the copied links (not made without links),
\* 6 update the attempt's quiz_id.
SaveQuizWithTitle(user_quiz_id, custom_title, current_user, failAt) ==
    LET attempts == {r \in user_quizzes : r.user_quiz_id = user_quiz_id}
        attempt == CHOOSE r \in attempts : TRUE
        originals == {q \in quizzes : q.quiz_id = attempt.quiz_id}
        original == CHOOSE q \in originals : TRUE
        links == {l \in quiz_questions : l.quiz_id = attempt.quiz_id}
        refused == \/ attempts = {}
                   \/ (IF Truthy(attempt.user_id) THEN attempt.user_id ELSE current_user)
                          # current_user
                   \/ originals = {}
        new_quiz_id == nextQuizId
        quizMade == ~refused /\ Done(failAt, 3)
        linksMade == ~refused /\ links # {} /\ Done(failAt, 5)
        moved == ~refused /\ Done(failAt, 6)
    IN /\ failAt \in 0 .. 6
       /\ refused => failAt = 0
       /\ (~refused /\ links = {}) => failAt # 5
       /\ quizzes' = IF quizMade
                       THEN quizzes \cup
                            {[quiz_id |-> new_quiz_id, user_id |-> current_user,
                              topic |-> custom_title,
                              total_questions |-> original.total_questions]}
                       ELSE quizzes
       /\ quiz_questions' = IF linksMade
                              THEN quiz_questions \cup
                                   {[quiz_id |-> new_quiz_id, question_id |-> l.question_id,
                                     question_order |-> l.question_order,
                                     max_marks |-> l.max_marks] : l \in links}
                              ELSE quiz_questions
       /\ nextQuizId' = IF quizMade THEN nextQuizId + 1 ELSE nextQuizId
       /\ user_quizzes' = IF moved
                            THEN {IF r.user_quiz_id = user_quiz_id
                                    THEN [r EXCEPT !.quiz_id = new_quiz_id] ELSE r :
                                  r \in user_quizzes}
                            ELSE user_quizzes
       /\ last' = [op |-> "save_quiz_with_title", user_id |-> current_user,
                   topic |-> custom_title, user_quiz_id |-> user_quiz_id,
                   result |-> IF refused THEN "refused"
                              ELSE IF failAt = 0 THEN "saved" ELSE "failed",
                   quiz_id |-> IF quizMade THEN new_quiz_id ELSE 0]
       /\ UNCHANGED <<questions, options, nextQuestionId, user_answers, nextUserQuizId>>
       /\ UNCHANGED <<docVars, schema, procs, request>>

\* answers a client sends for the quiz of InitAttempt
AttemptAnswers == [question_id : {1}, selected_option : {"A", "B"}, keys : {AnswerKeys}]
AttemptAnswerLists == UNION {[1 .. n -> AttemptAnswers] : n \in 0 .. MaxAnswers}
AttemptUsers == {"u1"}
TitleUsers == {"u1", "u2"}

OpSubmitQuiz ==
    \E path \in {"supabase", "manual"}, u \in AttemptUsers, q \in 1 .. (1 + MaxCopies),
       answers \in AttemptAnswerLists, failAt \in 0 .. (3 + MaxAnswers) :
        SubmitQuiz(path, u, q, answers, failAt)

OpSaveQuizWithTitle ==
    /\ nextQuizId <= 1 + MaxCopies
    /\ \E id \in 1 .. (nextUserQuizId - 1), t \in QuizTopics, u \in TitleUsers,
          failAt \in 0 .. 6 :
           SaveQuizWithTitle(id, t, u, failAt)

\* a database holding one quiz with one question (answer B), saved earlier
\* by save_quiz_to_database, and no attempts
InitAttempt ==
    /\ SUPABASE_AVAILABLE = TRUE
    /\ supaDocs = {} /\ sqliteDocs = {}
    /\ nextSupaDocId = 1 /\ nextSqliteDocId = 1
    /\ NoDownloadsNoFiles
    /\ localDb = NoLocalDb
    /\ quizzes = {[quiz_id |-> 1, user_id |-> "u1", topic |-> <<"M", "a", "t", "h">>,
                   total_questions |-> 1]}
    /\ questions = {[question_id |-> 1, question_text |-> "2+2?"]}
    /\ options = {[question_id |-> 1, correct_option |-> "B"]}
    /\ quiz_questions = {[quiz_id |-> 1, question_id |-> 1, question_order |-> 1,
                          max_marks |-> 1]}
    /\ nextQuizId = 2 /\ nextQuestionId = 2
    /\ EmptyAttemptTables
    /\ schema = [options_check |-> TRUE, attempt_unique |-> TRUE]
    /\ procs = <<>>
    /\ request = NoCall
    /\ last = NoCall

NextAttempt ==
    \/ OpSubmitQuiz
    \/ OpSaveQuizWithTitle

SpecAttempt == InitAttempt /\ [][NextAttempt]_vars

----------------------------------------------------------------------------
(* The choice of backend in quiz_database.py *)

\* get_db_connection() calls psycopg2.connect on every call: a connection
\* (the SQL path) when it succeeds, None (the Supabase-client path) when it
\* raises.  quiz_database.py keeps nothing of the result between calls.
get_db_connection(o) == IF o = "ok" THEN "manual" ELSE "supabase"

\* save_quiz_to_database with outcome o of its get_db_connection()
SaveQuizVia(o, topic, qs, user_id, failAt) ==
    IF get_db_connection(o) = "manual"
      THEN SaveQuizManual(topic, qs, user_id, failAt)
      ELSE SaveQuizSupabase(topic, qs, user_id, failAt)

\* save_user_quiz_attempt with outcome o of its get_db_connection()
SaveAttemptVia(o, user_id, quiz_id, answers, total_marks, score, failAt) ==
    SaveUserQuizAttempt(get_db_connection(o), user_id, quiz_id, answers,
                        total_marks, score, failAt)

\* get_quiz_by_id(quiz_id) as an operation, with outcome o of its
\* get_db_connection() and outcome s of its first select: an exception of a
\* query is caught and None is returned, on either path
GetQuizById(o, s, quiz_id) ==
    LET path == get_db_connection(o)
        quiz == IF s = "raise" THEN NoQuiz
                ELSE IF path = "manual" THEN get_quiz_by_id(quiz_id)
                ELSE get_quiz_by_id_supabase(quiz_id)
    IN /\ last' = [op |-> "get_quiz_by_id", path |-> path, quiz_id |-> quiz_id,
                   result |-> IF quiz.found THEN "found" ELSE "none",
                   failed |-> s = "raise",
                   returned |-> quiz,
                   questions |-> quiz.questions]
       /\ UNCHANGED <<docVars, quizVars, attemptVars, schema, procs, request>>

OpSaveQuizVia ==
    /\ nextQuizId <= MaxQuizzes
    /\ \E o \in ReadOutcomes, t \in QuizTopics, qs \in QuestionLists, u \in QuizUsers,
          failAt \in 0 .. (3 * MaxQuestions + 1) :
           SaveQuizVia(o, t, qs, u, failAt)
OpSaveAttemptVia ==
    \E o \in ReadOutcomes, u \in AttemptUsers, answers \in AttemptAnswerLists,
       failAt \in 0 .. (3 + MaxAnswers) :
        LET calc == CalculateScore(get_quiz_by_id_supabase(1), answers)
        IN SaveAttemptVia(o, u, 1, calc.user_answers, calc.total_marks, calc.score, failAt)
OpGetQuizById ==
    \E o \in ReadOutcomes, s \in ReadOutcomes, q \in 1 .. MaxQuizzes : GetQuizById(o, s, q)

NextBackend ==
    \/ OpSaveQuizVia
    \/ OpSaveAttemptVia
    \/ OpGetQuizById

SpecBackend == InitAttempt /\ [][NextBackend]_vars

----------------------------------------------------------------------------
(* save_user_quiz_attempt called with arbitrary marks *)

MaxMarks == 3

OpSaveUserQuizAttempt ==
    \E path \in {"supabase", "manual"}, total_marks \in 0 .. MaxMarks,
       score \in 0 .. MaxMarks, failAt \in 0 .. 3 :
        SaveUserQuizAttempt(path, "u1", 1, <<>>, total_marks, score, failAt)

NextPct == OpSaveUserQuizAttempt

SpecPct == InitAttempt /\ [][NextPct]_vars

----------------------------------------------------------------------------
(* One save_user_quiz_attempt input, called again and again *)

\* attempts with their answers, without the serial keys
AttemptView(rows, answerRows) ==
    {[user_id |-> r.user_id, quiz_id |-> r.quiz_id, total_marks |-> r.total_marks,
      score |-> r.score, percentage |-> r.percentage,
      answers |-> AnswersInOrder({a \in answerRows : a.user_quiz_id = r.user_quiz_id})] :
        r \in rows}

\* the client repeats the call held in `request', on whichever path
OpSaveSameAttempt ==
    \E path \in {"supabase", "manual"}, failAt \in 0 .. (3 + MaxAnswers) :
        SaveUserQuizAttempt(path, request.user_id, request.quiz_id, request.answers,
                            request.total_marks, request.score, failAt)

\* the quiz of InitAttempt, an attempt of another user, and for the
\* submitting user either no attempt or one with earlier answers
InitRetry ==
    /\ SUPABASE_AVAILABLE = TRUE
    /\ supaDocs = {} /\ sqliteDocs = {}
    /\ nextSupaDocId = 1 /\ nextSqliteDocId = 1
    /\ NoDownloadsNoFiles
    /\ localDb = NoLocalDb
    /\ quizzes = {[quiz_id |-> 1, user_id |-> "u1", topic |-> <<"M", "a", "t", "h">>,
                   total_questions |-> 1]}
    /\ questions = {[question_id |-> 1, question_text |-> "2+2?"]}
    /\ options = {[question_id |-> 1, correct_option |-> "B"]}
    /\ quiz_questions = {[quiz_id |-> 1, question_id |-> 1, question_order |-> 1,
                          max_marks |-> 1]}
    /\ nextQuizId = 2 /\ nextQuestionId = 2
    /\ \E had \in BOOLEAN, old \in AttemptAnswerLists :
          LET quiz == get_quiz_by_id_supabase(1)
              other == CalculateScore(quiz, <<[question_id |-> 1, selected_option |-> "B",
                                               keys |-> AnswerKeys]>>)
              mine == CalculateScore(quiz, old)
          IN /\ user_quizzes =
                   {AttemptRow(1, "u2", 1, other.total_marks, other.score)} \cup
                   (IF had THEN {AttemptRow(2, "u1", 1, mine.total_marks, mine.score)}
                    ELSE {})
             /\ user_answers =
                   InsertAnswers(
                       IF had THEN InsertAnswers({}, 2, mine.user_answers, Len(old)) ELSE {},
                       1, other.user_answers, 1)
             /\ nextUserQuizId = IF had THEN 3 ELSE 2
    /\ schema = [options_check |-> TRUE, attempt_unique |-> TRUE]
    /\ procs = <<>>
    /\ \E answers \in AttemptAnswerLists :
          LET calc == CalculateScore(get_quiz_by_id_supabase(1), answers)
          IN request = [op |-> "save_user_quiz_attempt", user_id |-> "u1", quiz_id |-> 1,
                        answers |-> calc.user_answers, total_marks |-> calc.total_marks,
                        score |-> calc.score,
                        pre |-> [user_quizzes |-> user_quizzes,
                                 user_answers |-> user_answers]]
    /\ last = NoCall

NextRetry == OpSaveSameAttempt

SpecRetry == InitRetry /\ [][NextRetry]_vars

----------------------------------------------------------------------------
(* Quizzes whose generated questions carry marks, and their submissions *)

\* the generator is asked for "marks": 1 on every question; what it returns
\* is stored as it comes
MaxQuestionMarks == 2
MaxMarkedQuizzes == 1
MarkedQuestions ==
    [question_text : {"2+2?"}, correct_option : {"B"}, marks : 1 .. MaxQuestionMarks]
MarkedQuestionLists == UNION {[1 .. n -> MarkedQuestions] : n \in 0 .. MaxQuestions}

OpGenerateMarkedQuiz ==
    /\ nextQuizId <= MaxMarkedQuizzes
    /\ \E t \in QuizTopics, qs \in MarkedQuestionLists, u \in QuizUsers,
          failAt \in 0 .. (3 * MaxQuestions + 1), c1 \in ReadOutcomes, c2 \in ReadOutcomes :
           GenerateQuizApi(t, qs, u, failAt, c1, c2)

NextMarks ==
    \/ OpGenerateMarkedQuiz
    \/ OpSubmitQuiz

SpecMarks == InitQuiz /\ [][NextMarks]_vars

----------------------------------------------------------------------------
(* The scoring loop of submit_quiz on arbitrary request bodies *)

MaxScored == 2

\* request.answers is List[Dict[str, Any]]: an entry may lack a key, name a
\* question the quiz does not have (2), or carry a null selected_option
ScoredAnswers ==
    [question_id : {1, 2}, selected_option : {"A", "B", Null},
     keys : {AnswerKeys, {"question_id"}, {"selected_option"}}]
ScoredAnswerLists == UNION {[1 .. n -> ScoredAnswers] : n \in 0 .. MaxScored}

ScoreRequest ==
    /\ request.op = "submit_quiz"
    /\ get_quiz_by_id(request.quiz_id).found
    /\ LET calc == CalculateScore(get_quiz_by_id(request.quiz_id), request.answers)
       IN last' = [op |-> "calculate_score", quiz_id |-> request.quiz_id,
                   answers |-> request.answers, error |-> calc.error,
                   score |-> calc.score, total_marks |-> calc.total_marks,
                   user_answers |-> calc.user_answers]
    /\ request' = NoCall
    /\ UNCHANGED <<docVars, quizVars, attemptVars, schema, procs>>

InitScore ==
    /\ SUPABASE_AVAILABLE = TRUE
    /\ supaDocs = {} /\ sqliteDocs = {}
    /\ nextSupaDocId = 1 /\ nextSqliteDocId = 1
    /\ NoDownloadsNoFiles
    /\ localDb = NoLocalDb
    /\ quizzes = {[quiz_id |-> 1, user_id |-> "u1", topic |-> <<"M", "a", "t", "h">>,
                   total_questions |-> 1]}
    /\ questions = {[question_id |-> 1, question_text |-> "2+2?"]}
    /\ options = {[question_id |-> 1, correct_option |-> "B"]}
    /\ quiz_questions = {[quiz_id |-> 1, question_id |-> 1, question_order |-> 1,
                          max_marks |-> 1]}
    /\ nextQuizId = 2 /\ nextQuestionId = 2
    /\ EmptyAttemptTables
    /\ schema = [options_check |-> TRUE, attempt_unique |-> TRUE]
    /\ procs = <<>>
    /\ request \in [op : {"submit_quiz"}, quiz_id : {1}, answers : ScoredAnswerLists]
    /\ last = NoCall

NextScore == ScoreRequest

SpecScore == InitScore /\ [][NextScore]_vars

----------------------------------------------------------------------------
(* Two calls of save_user_quiz_attempt_supabase in flight for one pair.
   Every client call is a request of its own, committed when it returns;
   the function holds no lock, so the calls of two requests interleave. *)

Procs == {1, 2}
ConcAnswers == {<<[question_id |-> 1, selected_option |-> o,
                   awarded_marks |-> IF o = "B" THEN 1 ELSE 0]>> : o \in {"A", "B"}}
ConcScore(answers) == answers[1].awarded_marks

\* 576: the select of the existing attempt
ProcCheck(p) ==
    /\ procs[p].pc = "check"
    /\ LET found == ExistingAttempt(user_quizzes, procs[p].user_id, procs[p].quiz_id)
       IN procs' = [procs EXCEPT ![p].pc = "write",
                                 ![p].existed = found # {},
                                 ![p].user_quiz_id =
                                     IF found = {} THEN 0
                                     ELSE (CHOOSE r \in found : TRUE).user_quiz_id]
    /\ UNCHANGED <<docVars, quizVars, attemptVars, schema, request, last>>

\* 582-588 the update of the existing attempt, 595-606 the insert of a new
\* one, which a unique constraint on (user_id, quiz_id) makes raise when the
\* pair has a row by now
ProcWrite(p) ==
    /\ procs[p].pc = "write"
    /\ LET me == procs[p]
           score == ConcScore(me.answers)
           taken == ExistingAttempt(user_quizzes, me.user_id, me.quiz_id) # {}
       IN IF me.existed
            THEN /\ user_quizzes' =
                      {r \in user_quizzes : r.user_quiz_id # me.user_quiz_id} \cup
                      {AttemptRow(me.user_quiz_id, me.user_id, me.quiz_id,
                                  me.total_marks, score)}
                 /\ procs' = [procs EXCEPT ![p].pc = "delete"]
                 /\ UNCHANGED nextUserQuizId
            ELSE IF schema.attempt_unique /\ taken
              THEN /\ procs' = [procs EXCEPT ![p].pc = "failed"]
                   /\ UNCHANGED <<user_quizzes, nextUserQuizId>>
              ELSE /\ user_quizzes' = user_quizzes \cup
                        {AttemptRow(nextUserQuizId, me.user_id, me.quiz_id,
                                    me.total_marks, score)}
                   /\ nextUserQuizId' = nextUserQuizId + 1
                   /\ procs' = [procs EXCEPT ![p].pc = "answers",
                                             ![p].user_quiz_id = nextUserQuizId]
    /\ UNCHANGED <<docVars, quizVars, user_answers, schema, request, last>>

\* 591: the delete of the attempt's old answers
ProcDelete(p) ==
    /\ procs[p].pc = "delete"
    /\ user_answers' = DeleteAnswers(user_answers, procs[p].user_quiz_id)
    /\ procs' = [procs EXCEPT ![p].pc = "answers"]
    /\ UNCHANGED <<docVars, quizVars, user_quizzes, nextUserQuizId, schema, request, last>>

\* 609-618: the insert of the next answer, and the return after the last
ProcInsertAnswer(p) ==
    /\ procs[p].pc = "answers"
    /\ LET me == procs[p]
       IN /\ user_answers' = InsertAnswer(user_answers, me.user_quiz_id,
                                          me.answers[me.inserted + 1])
          /\ procs' = [procs EXCEPT ![p].inserted = me.inserted + 1,
                                    ![p].pc = IF me.inserted + 1 = Len(me.answers)
                                                THEN "done" ELSE "answers"]
    /\ UNCHANGED <<docVars, quizVars, user_quizzes, nextUserQuizId, schema, request, last>>

\* the pair has no attempt yet, or one saved by an earlier submission
InitConc ==
    /\ SUPABASE_AVAILABLE = TRUE
    /\ supaDocs = {} /\ sqliteDocs = {}
    /\ nextSupaDocId = 1 /\ nextSqliteDocId = 1
    /\ NoDownloadsNoFiles
    /\ localDb = NoLocalDb
    /\ quizzes = {[quiz_id |-> 1, user_id |-> "u1", topic |-> <<"M", "a", "t", "h">>,
                   total_questions |-> 1]}
    /\ questions = {[question_id |-> 1, question_text |-> "2+2?"]}
    /\ options = {[question_id |-> 1, correct_option |-> "B"]}
    /\ quiz_questions = {[quiz_id |-> 1, question_id |-> 1, question_order |-> 1,
                          max_marks |-> 1]}
    /\ nextQuizId = 2 /\ nextQuestionId = 2
    /\ \/ EmptyAttemptTables
       \/ \E old \in ConcAnswers :
             /\ user_quizzes = {AttemptRow(1, "u1", 1, 1, ConcScore(old))}
             /\ user_answers = InsertAnswers({}, 1, old, Len(old))
             /\ nextUserQuizId = 2
    /\ schema \in {sc \in Schemas : sc.options_check}
    /\ procs \in [Procs -> [pc : {"check"}, user_id : {"u1"}, quiz_id : {1},
                            answers : ConcAnswers, total_marks : {1},
                            existed : {FALSE}, user_quiz_id : {0}, inserted : {0}]]
    /\ request = NoCall
    /\ last = NoCall

NextConc ==
    \/ \E p \in Procs : ProcCheck(p)
    \/ \E p \in Procs : ProcWrite(p)
    \/ \E p \in Procs : ProcDelete(p)
    \/ \E p \in Procs : ProcInsertAnswer(p)

SpecConc == InitConc /\ [][NextConc]_vars

----------------------------------------------------------------------------
(* Documents as they are saved and as they are read back *)

\* readings of datetime.utcnow()
MaxTime == 2
Times == 1 .. MaxTime

\* topics as the sequences of their characters: one below the limit of
\* topic[:255] and one above it
ShortTopic == <<"C", "a", "t", "s">>
LongTopic == [i \in 1 .. TOPIC_MAX + 1 |-> "x"]
DocTopics == {ShortTopic, LongTopic}

Contents == {"text"}
Summaries == {"sum"}
KeywordValues == {Null, "kw"}
ResourceLists == {<<>>, <<"r1">>}

\* _serialize_resources: json.dumps(resources or []), the JSON text of the list
_serialize_resources(resources) == [json |-> resources]

\* _deserialize_resources on the text _serialize_resources wrote: json.loads
_deserialize_resources(value) == value.json

\* insert_data of save_document_session: the columns the primary receives
InsertData(user_id, topic, original_content, summary) ==
    [user_id |-> user_id,
     topic |-> Truncate(topic),
     content |-> original_content,
     summary |-> summary,
     file_url |-> Null]

\* the row _save_document_session_sqlite inserts
SqliteRow(user_id, topic, original_content, summary, resources, keywords, timestamp) ==
    [user_id |-> user_id,
     topic |-> Truncate(topic),
     content |-> original_content,
     summary |-> summary,
     keywords |-> keywords,
     resources |-> _serialize_resources(resources),
     file_url |-> Null,
     created_at |-> timestamp]

\* a stored row with its doc_id
WithId(row, doc_id) ==
    [f \in DOMAIN row \cup {"doc_id"} |-> IF f = "doc_id" THEN doc_id ELSE row[f]]

\* record.get(field)
Get(record, field) == IF field \in DOMAIN record THEN record[field] ELSE Null

\* `value or ""'
OrEmpty(value) == IF Truthy(value) THEN value ELSE ""

\* _normalize_supabase_document(record) called at time now, in full but for
\* the lengths: keywords is "" and created_at is the time of the call,
\* whatever the record holds
NormalizedDocument(record, now) ==
    LET original_content == OrEmpty(Get(record, "content"))
        summary_text == OrEmpty(Get(record, "summary"))
        resources == IF "resources" \in DOMAIN record THEN record.resources ELSE <<>>
        created_at == now
    IN [doc_id |-> Get(record, "doc_id"),
        topic |-> Get(record, "topic"),
        summary |-> summary_text,
        keywords |-> "",
        original_content |-> original_content,
        content |-> original_content,
        created_at |-> created_at,
        user_id |-> IF Truthy(Get(record, "user_id")) THEN StrOf(record.user_id) ELSE Null,
        file_url |-> Get(record, "file_url"),
        resources |-> resources,
        media |-> [summary |-> summary_text,
                   keywords |-> "",
                   original_content |-> original_content,
                   created_at |-> created_at,
                   download_count |-> 0,
                   user_id |-> StrOf(Get(record, "user_id")),
                   resources |-> resources]]

\* the record get_document builds from a SQLite row (_row_to_document, then
\* the dict of lines 494-505, without media, which the normalisation ignores)
SqliteRecord(row) ==
    [doc_id |-> row.doc_id,
     topic |-> row.topic,
     summary |-> row.summary,
     keywords |-> row.keywords,
     content |-> row.content,
     created_at |-> row.created_at,
     resources |-> _deserialize_resources(row.resources),
     user_id |-> row.user_id,
     file_url |-> row.file_url]

\* get_document's None
NoRecord == [found |-> FALSE]

\* get_document(doc_id) called at time now, with outcome o of its primary
\* select, on rows that carry every column
GetDocumentRecord(avail, db0, doc_id, now, o) ==
    LET primary == UsePrimary(avail)
        hit == primary /\ o = "ok" /\ SupaSelect(doc_id) # {}
        db == IF hit THEN db0 ELSE _sqlite_connection(db0)
    IN [doc |-> IF hit
                  THEN [found |-> TRUE,
                        document |-> NormalizedDocument(
                                         CHOOSE d \in SupaSelect(doc_id) : TRUE, now)]
                  ELSE IF db.table /\ SqliteSelect(doc_id) # {}
                         THEN [found |-> TRUE,
                               document |-> NormalizedDocument(
                                   SqliteRecord(CHOOSE d \in SqliteSelect(doc_id) : TRUE), now)]
                         ELSE NoRecord,
        avail |-> IF primary THEN _handle_supabase_failure(avail, o) ELSE avail,
        db |-> db]

\* save_document_session called at time now with every argument, with
\* outcome o of the primary insert
SaveDocumentRecord(user_id, topic, original_content, summary, resources, keywords, now, o) ==
    LET u == EffectiveUser(user_id)
        primary == UsePrimary(SUPABASE_AVAILABLE)
        stored == primary /\ o = "ok"
        noData == primary /\ o = "nodata"
        opened == ~stored /\ ~noData
        db == IF opened THEN _sqlite_connection(localDb) ELSE localDb
        inserted == opened /\ db.table
    IN /\ ~primary => o = "ok"
       /\ IF primary /\ o # "raise" THEN nextSupaDocId <= MaxDocs
                                      ELSE nextSqliteDocId <= MaxDocs
       /\ SUPABASE_AVAILABLE' =
              (IF primary THEN _handle_supabase_failure(SUPABASE_AVAILABLE, o)
               ELSE SUPABASE_AVAILABLE)
       /\ localDb' = db
       /\ IF stored
            THEN /\ supaDocs' = supaDocs \cup
                       {WithId(InsertData(u, topic, original_content, summary),
                               nextSupaDocId)}
                 /\ nextSupaDocId' = nextSupaDocId + 1
                 /\ UNCHANGED <<sqliteDocs, nextSqliteDocId>>
            ELSE IF inserted
                   THEN /\ sqliteDocs' = sqliteDocs \cup
                              {WithId(SqliteRow(u, topic, original_content, summary,
                                                resources, keywords, now),
                                      nextSqliteDocId)}
                        /\ nextSqliteDocId' = nextSqliteDocId + 1
                        /\ UNCHANGED <<supaDocs, nextSupaDocId>>
                   ELSE UNCHANGED <<supaDocs, nextSupaDocId, sqliteDocs, nextSqliteDocId>>
       /\ last' = [op |-> "save_document_session",
                   user_id |-> user_id, topic |-> topic, content |-> original_content,
                   summary |-> summary, resources |-> resources, keywords |-> keywords,
                   now |-> now, outcome |-> o,
                   doc_id |-> IF stored THEN nextSupaDocId
                              ELSE IF inserted THEN nextSqliteDocId ELSE 0,
                   result |-> IF stored \/ inserted THEN "saved" ELSE "failed",
                   storage |-> IF stored THEN "supabase"
                               ELSE IF inserted THEN "sqlite" ELSE "none",
                   fetched |-> NoRecord]
       /\ UNCHANGED <<downloads, files>>
       /\ UNCHANGED <<quizVars, attemptVars, schema, procs, request>>

\* get_document(doc_id) at time now as an operation on those rows
ReadDocumentRecord(doc_id, now, o) ==
    LET r == GetDocumentRecord(SUPABASE_AVAILABLE, localDb, doc_id, now, o)
    IN /\ ~UsePrimary(SUPABASE_AVAILABLE) => o = "ok"
       /\ SUPABASE_AVAILABLE' = r.avail
       /\ localDb' = r.db
       /\ last' = [op |-> "get_document",
                   user_id |-> Null, topic |-> <<>>, content |-> Null,
                   summary |-> Null, resources |-> <<>>, keywords |-> Null,
                   now |-> now, outcome |-> o,
                   doc_id |-> doc_id,
                   result |-> IF r.doc.found THEN "found" ELSE "not_found",
                   storage |-> "none",
                   fetched |-> r.doc]
       /\ UNCHANGED <<supaDocs, sqliteDocs, nextSupaDocId, nextSqliteDocId>>
       /\ UNCHANGED <<downloads, files>>
       /\ UNCHANGED <<quizVars, attemptVars, schema, procs, request>>

OpSaveDocumentRecord ==
    \E u \in {"u1", Null}, t \in DocTopics, c \in Contents, s \in Summaries,
       r \in ResourceLists, k \in KeywordValues, now \in Times, o \in Outcomes :
        SaveDocumentRecord(u, t, c, s, r, k, now, o)
OpReadDocumentRecord ==
    \E d \in 1 .. MaxDocs, now \in Times, o \in ReadOutcomes : ReadDocumentRecord(d, now, o)

\* module import on an empty primary table and an empty or missing
\* local_documents.db
InitRecord ==
    /\ SUPABASE_AVAILABLE \in BOOLEAN
    /\ supaDocs = {} /\ sqliteDocs = {}
    /\ nextSupaDocId = 1 /\ nextSqliteDocId = 1
    /\ NoDownloadsNoFiles
    /\ \E before \in {NoLocalDb, ReadyLocalDb} :
          localDb = IF SUPABASE_AVAILABLE THEN before ELSE _init_local_storage(before)
    /\ EmptyQuizTables
    /\ EmptyAttemptTables
    /\ schema = [options_check |-> TRUE, attempt_unique |-> TRUE]
    /\ procs = <<>>
    /\ request = NoCall
    /\ last = NoCall

NextRecord ==
    \/ OpSaveDocumentRecord
    \/ OpReadDocumentRecord

SpecRecord == InitRecord /\ [][NextRecord]_vars

----------------------------------------------------------------------------

(* Quiz creation with topics below and above 255 characters *)

\* quizzes created per run, and the question lists they are created with
MaxTopicQuizzes == 1
TopicQuestionLists == {qs \in QuestionLists : Len(qs) <= 1}

OpSaveTopicQuizSupabase ==
    /\ nextQuizId <= MaxTopicQuizzes
    /\ \E t \in DocTopics, qs \in TopicQuestionLists, u \in QuizUsers,
          failAt \in 0 .. (3 * MaxQuestions + 1) :
           SaveQuizSupabase(t, qs, u, failAt)
OpSaveTopicQuizManual ==
    /\ nextQuizId <= MaxTopicQuizzes
    /\ \E t \in DocTopics, qs \in TopicQuestionLists, u \in QuizUsers,
          failAt \in 0 .. (3 * MaxQuestions + 1) :
           SaveQuizManual(t, qs, u, failAt)
OpGenerateTopicQuiz ==
    /\ nextQuizId <= MaxTopicQuizzes
    /\ \E t \in DocTopics, qs \in TopicQuestionLists, u \in QuizUsers,
          failAt \in 0 .. (3 * MaxQuestions + 1), c1 \in ReadOutcomes, c2 \in ReadOutcomes :
           GenerateQuizApi(t, qs, u, failAt, c1, c2)

NextTopic ==
    \/ OpSaveTopicQuizSupabase
    \/ OpSaveTopicQuizManual
    \/ OpGenerateTopicQuiz

SpecTopic == InitQuiz /\ [][NextTopic]_vars

----------------------------------------------------------------------------

(* The quiz-taking view: main.py get_quiz *)

\* one entry of questions_for_quiz: the fields copied from a question of
\* get_quiz_by_id
QuestionForQuizMut(q) == q
QuestionForQuiz(q) ==
    [question_id |-> q.question_id, question_text |-> q.question_text,
     question_order |-> q.question_order, max_marks |-> q.max_marks]

\* the response of GET /quiz/{quiz_id} for the quiz_data it has read:
\* 404 for None, else the quiz with the stripped questions
QuizResponse(quiz_data) ==
    IF ~quiz_data.found THEN [status |-> 404]
    ELSE [status |-> 200, quiz_id |-> quiz_data.quiz_id, topic |-> quiz_data.topic,
          questions |-> [i \in 1 .. Len(quiz_data.questions) |->
                            QuestionForQuiz(quiz_data.questions[i])],
          total_questions |-> Len(quiz_data.questions)]

\* what get_quiz_by_id returns on the given path when the options table
\* holds opts; a query that raises is caught and gives None
QuizData(path, s, opts, quiz_id) ==
    IF s = "raise" THEN NoQuiz
    ELSE IF path = "manual" THEN QuizOverSql(opts, quiz_id)
    ELSE QuizOver(opts, quiz_id)

\* get_quiz(quiz_id), with outcome o of get_db_connection() and outcome s of
\* the first select of get_quiz_by_id
GetQuiz(o, s, quiz_id) ==
    LET path == get_db_connection(o)
    IN /\ last' = [op |-> "get_quiz", path |-> path, quiz_id |-> quiz_id,
                   failed |-> s = "raise",
                   response |-> QuizResponse(QuizData(path, s, options, quiz_id))]
       /\ UNCHANGED <<docVars, quizVars, attemptVars, schema, procs, request>>

\* quizzes created before they are served
MaxViewQuizzes == 1

\* the question lists they are created with
ViewQuestionLists == {qs \in QuestionLists : Len(qs) <= 2}

OpSaveViewQuiz ==
    /\ nextQuizId <= MaxViewQuizzes
    /\ \E o \in ReadOutcomes, t \in QuizTopics, qs \in ViewQuestionLists, u \in QuizUsers,
          failAt \in 0 .. (3 * MaxQuestions + 1) :
           SaveQuizVia(o, t, qs, u, failAt)
OpGenerateViewQuiz ==
    /\ nextQuizId <= MaxViewQuizzes
    /\ \E t \in QuizTopics, qs \in ViewQuestionLists, u \in QuizUsers,
          failAt \in 0 .. (3 * MaxQuestions + 1), c1 \in ReadOutcomes, c2 \in ReadOutcomes :
           GenerateQuizApi(t, qs, u, failAt, c1, c2)
OpGetQuiz ==
    \E o \in ReadOutcomes, s \in ReadOutcomes, q \in 1 .. MaxViewQuizzes :
        GetQuiz(o, s, q)

NextView ==
    \/ OpSaveViewQuiz
    \/ OpGenerateViewQuiz
    \/ OpGetQuiz

SpecView == InitQuiz /\ [][NextView]_vars

----------------------------------------------------------------------------

(* Validation of generated questions: quiz_generator.py *)

\* A JSON value of a question field: a string (a sequence of characters),
\* a number, null, or no such key in the object
StrValue(s) == [type |-> "str", s |-> s, n |-> 0]
NumValue(n) == [type |-> "num", s |-> <<>>, n |-> n]
NullValue == [type |-> "null", s |-> <<>>, n |-> 0]
NoKey == [type |-> "nokey", s |-> <<>>, n |-> 0]

\* `not q[field]'
Falsy(v) ==
    \/ v.type = "null"
    \/ v.type = "str" /\ v.s = <<>>
    \/ v.type = "num" /\ v.n = 0

\* str.upper() and str.strip() on the characters that occur
UpperChar(c) ==
    CASE c = "a" -> "A"
      [] c = "e" -> "E"
      [] OTHER -> c
upper(s) == [i \in 1 .. Len(s) |-> UpperChar(s[i])]
RECURSIVE lstrip(_)
lstrip(s) == IF s # <<>> /\ Head(s) = " " THEN lstrip(Tail(s)) ELSE s
RECURSIVE rstrip(_)
rstrip(s) ==
    IF s # <<>> /\ s[Len(s)] = " " THEN rstrip(SubSeq(s, 1, Len(s) - 1)) ELSE s
strip(s) == rstrip(lstrip(s))

required_fields ==
    {"question_text", "option_a", "option_b", "option_c", "option_d", "correct_option"}
Letters == {<<"A">>, <<"B">>, <<"C">>, <<"D">>}

\* One pass of the loop `for i, q in enumerate(quiz_data)': the question as
\* it is appended to validated_questions, or raised = TRUE when the pass
\* raises (a ValueError, or the AttributeError of .upper() on a value that
\* is not a string)
NoQuestion == [f \in required_fields |-> NoKey]
LetterAcceptedMut(v) == v.type = "str"
LetterAccepted(v) == v.type = "str" /\ upper(v.s) \in Letters
ValidateQuestion(q) ==
    LET missing_fields == {f \in required_fields : q.fields[f].type = "nokey" \/ Falsy(q.fields[f])}
        normalized == [q.fields EXCEPT !["correct_option"] = StrValue(upper(@.s))]
        bad == {f \in required_fields :
                   normalized[f].type # "str" \/ strip(normalized[f].s) = <<>>}
        raised == \/ ~q.isdict
                  \/ missing_fields # {}
                  \/ ~LetterAccepted(q.fields["correct_option"])
                  \/ bad # {}
    IN [raised |-> raised,
        question |-> IF raised THEN NoQuestion
                     ELSE [f \in required_fields |-> StrValue(strip(normalized[f].s))]]

\* generate_quiz_questions(content, topic, num_questions) on the reply of
\* the completion call: the call raises, the text holds no JSON, the JSON is
\* not an array, or it is an array of items
GenerationFailed == [success |-> FALSE, questions |-> <<>>, total_questions |-> 0]
generate_quiz_questions(reply, num_questions) ==
    LET quiz_data == reply.items
        passes == [i \in 1 .. Len(quiz_data) |-> ValidateQuestion(quiz_data[i])]
    IN IF reply.kind # "array" THEN GenerationFailed
       ELSE IF Len(quiz_data) # num_questions /\ Len(quiz_data) = 0 THEN GenerationFailed
       ELSE IF \E i \in 1 .. Len(passes) : passes[i].raised THEN GenerationFailed
       ELSE [success |-> TRUE,
             questions |-> [i \in 1 .. Len(passes) |-> passes[i].question],
             total_questions |-> Len(passes)]

\* replies: the items are well-formed questions with up to one field
\* replaced by another JSON value, and values that are not objects
MaxItems == 2
FieldStrings == {<<>>, <<" ">>, <<"x">>, <<" ", "x", " ">>}
LetterStrings == {<<"A">>, <<"a">>, <<"E">>, <<"e">>, <<" ", "A">>, <<"A", "B">>}
FieldValues ==
    {StrValue(s) : s \in FieldStrings \cup LetterStrings} \cup
    {NumValue(0), NumValue(1), NullValue, NoKey}
GoodQuestion ==
    [f \in required_fields |-> IF f = "correct_option" THEN StrValue(<<"B">>)
                               ELSE StrValue(<<"x">>)]
ReplyItems ==
    {[isdict |-> TRUE, fields |-> [GoodQuestion EXCEPT ![f] = v]] :
        f \in {"question_text", "option_c", "correct_option"}, v \in FieldValues}
    \cup {[isdict |-> FALSE, fields |-> NoQuestion]}
Replies ==
    {[kind |-> k, items |-> <<>>] : k \in {"raise", "nojson", "notarray"}} \cup
    {[kind |-> "array", items |-> items] :
        items \in UNION {[1 .. n -> ReplyItems] : n \in 0 .. MaxItems}}

\* the call that request holds is served
GenerateQuizQuestions ==
    /\ request.op = "generate_quiz_questions"
    /\ last' = [op |-> "generate_quiz_questions", reply |-> request.reply,
                num_questions |-> request.num_questions,
                result |-> generate_quiz_questions(request.reply, request.num_questions)]
    /\ request' = NoCall
    /\ UNCHANGED <<docVars, quizVars, attemptVars, schema, procs>>

InitGenerator ==
    /\ SUPABASE_AVAILABLE = TRUE
    /\ supaDocs = {} /\ sqliteDocs = {}
    /\ nextSupaDocId = 1 /\ nextSqliteDocId = 1
    /\ NoDownloadsNoFiles
    /\ localDb = NoLocalDb
    /\ EmptyQuizTables
    /\ EmptyAttemptTables
    /\ schema = [options_check |-> TRUE, attempt_unique |-> TRUE]
    /\ procs = <<>>
    /\ request \in [op : {"generate_quiz_questions"}, reply : Replies,
                     num_questions : {0, MaxItems}]
    /\ last = NoCall

NextGenerator == GenerateQuizQuestions

SpecGenerator == InitGenerator /\ [][NextGenerator]_vars

----------------------------------------------------------------------------

(* The report of a submission: main.py submit_quiz *)

\* answers per submission, for the quiz of InitReport
MaxReportAnswers == 3

\* `next((a for a in request.answers if a["question_id"] == q["question_id"]), None)'
\* and `user_selected = user_answer["selected_option"] if user_answer else None'
UserSelected(answers, question_id) ==
    IF \E i \in 1 .. Len(answers) : answers[i].question_id = question_id
      THEN answers[CHOOSE i \in 1 .. Len(answers) :
                      /\ answers[i].question_id = question_id
                      /\ \A j \in 1 .. (i - 1) : answers[j].question_id # question_id
                  ].selected_option
      ELSE Null

\* `is_correct = user_selected == q["correct_option"] if user_selected else False'
QuestionCorrect(answers, q) ==
    /\ Truthy(UserSelected(answers, q.question_id))
    /\ UserSelected(answers, q.question_id) = q.correct_option

\* q[f"option_{...lower()}"] raises KeyError for a letter without an option
DetailRaises(answers, q) ==
    \/ q.correct_option \notin ValidOptions
    \/ /\ Truthy(UserSelected(answers, q.question_id))
       /\ UserSelected(answers, q.question_id) \notin ValidOptions

\* len([a for a in request.answers if a["selected_option"]])
AttemptedMut(answers) == 0
Attempted(answers) ==
    Cardinality({i \in 1 .. Len(answers) : Truthy(answers[i].selected_option)})

\* submission_summary and statistics of the quiz_report
CorrectCount(quiz, answers) ==
    Cardinality({i \in 1 .. Len(quiz.questions) :
                    QuestionCorrect(answers, quiz.questions[i])})
QuizReport(quiz, answers, score, total_marks, percentage) ==
    [total_questions |-> total_marks,
     correct_answers |-> CorrectCount(quiz, answers),
     incorrect_answers |-> total_marks - CorrectCount(quiz, answers),
     score |-> score,
     total_marks |-> total_marks,
     percentage |-> percentage,
     questions_attempted |-> Attempted(answers),
     questions_skipped |-> total_marks - Attempted(answers)]
NoReport == QuizReport(NoQuiz, <<>>, 0, 0, [num |-> 0, den |-> 1])

\* submit_quiz(request, current_user): 404 without the quiz; 500 when an
\* answer lacks a key, when generate_performance_feedback divides by a
\* total of 0, when the save fails or when the detailed results raise;
\* else 200 with the report.  The attempt is saved before the report is
\* built.
SubmitQuizReport(path, user_id, quiz_id, answers, failAt) ==
    LET quiz == IF path = "manual" THEN get_quiz_by_id(quiz_id)
                ELSE get_quiz_by_id_supabase(quiz_id)
        calc == CalculateScore(quiz, answers)
        saving == quiz.found /\ ~calc.error /\ calc.total_marks # 0
        call == AttemptCall(path, user_id, quiz_id, calc.user_answers,
                            calc.total_marks, calc.score, failAt)
        raises == \E i \in 1 .. Len(quiz.questions) : DetailRaises(answers, quiz.questions[i])
        status == IF ~quiz.found THEN 404
                  ELSE IF ~saving \/ failAt # 0 \/ raises THEN 500
                  ELSE 200
    IN /\ ~saving => failAt = 0
       /\ IF saving
            THEN AttemptWrites(path, user_id, quiz_id, calc.user_answers,
                               calc.total_marks, calc.score, failAt)
            ELSE UNCHANGED attemptVars
       /\ last' = [op |-> "submit_quiz", path |-> path, user_id |-> call.user_id,
                   quiz_id |-> quiz_id, answers |-> answers, status |-> status,
                   saved |-> saving /\ failAt = 0,
                   report |-> IF status = 200
                                THEN QuizReport(quiz, answers, calc.score,
                                                calc.total_marks, call.percentage)
                                ELSE NoReport]
       /\ request' = NoCall
       /\ UNCHANGED <<docVars, quizVars, schema, procs>>

ReportAnswers == [question_id : {1, 2}, selected_option : {"A", "B", Null},
                  keys : {AnswerKeys}]
ReportAnswerLists == UNION {[1 .. n -> ReportAnswers] : n \in 0 .. MaxReportAnswers}

\* the submission that request holds is served
OpSubmitQuizReport ==
    /\ request.op = "submit_quiz"
    /\ \E failAt \in 0 .. (3 + MaxReportAnswers) :
          SubmitQuizReport(request.path, request.user_id, request.quiz_id,
                           request.answers, failAt)

\* a database holding one quiz with two questions (answers B and A), saved
\* earlier by save_quiz_to_database, and no attempts
InitReport ==
    /\ SUPABASE_AVAILABLE = TRUE
    /\ supaDocs = {} /\ sqliteDocs = {}
    /\ nextSupaDocId = 1 /\ nextSqliteDocId = 1
    /\ NoDownloadsNoFiles
    /\ localDb = NoLocalDb
    /\ quizzes = {[quiz_id |-> 1, user_id |-> "u1", topic |-> <<"M", "a", "t", "h">>,
                   total_questions |-> 2]}
    /\ questions = {[question_id |-> 1, question_text |-> "2+2?"],
                    [question_id |-> 2, question_text |-> "3+3?"]}
    /\ options = {[question_id |-> 1, correct_option |-> "B"],
                  [question_id |-> 2, correct_option |-> "A"]}
    /\ quiz_questions = {[quiz_id |-> 1, question_id |-> 1, question_order |-> 1,
                          max_marks |-> 1],
                         [quiz_id |-> 1, question_id |-> 2, question_order |-> 2,
                          max_marks |-> 1]}
    /\ nextQuizId = 2 /\ nextQuestionId = 3
    /\ EmptyAttemptTables
    /\ schema = [options_check |-> TRUE, attempt_unique |-> TRUE]
    /\ procs = <<>>
    /\ request \in [op : {"submit_quiz"}, path : {"supabase", "manual"},
                     user_id : AttemptUsers, quiz_id : {1, 2},
                     answers : ReportAnswerLists]
    /\ last = NoCall

NextReport == OpSubmitQuizReport

SpecReport == InitReport /\ [][NextReport]_vars

----------------------------------------------------------------------------

(* The history of attempts: quiz_database.py get_user_quiz_attempts *)

\* the instants at which attempts are saved
MaxClock == 2
Clock == 1 .. MaxClock

\* the latest completed_at of the table: NOW() does not run backwards
Latest ==
    IF user_quizzes = {} THEN 0
    ELSE CHOOSE t \in {r.completed_at : r \in user_quizzes} :
            \A r \in user_quizzes : r.completed_at <= t

\* what save_user_quiz_attempt returns (the percentage as computed, not
\* rounded); the message names the path
AttemptResult(path, t, score, total_marks, failAt) ==
    IF failAt # 0 THEN [success |-> FALSE, user_quiz_id |-> 0,
                        percentage |-> Percentage(0, 0), message |-> "error"]
    ELSE [success |-> TRUE, user_quiz_id |-> t.user_quiz_id,
          percentage |-> Percentage(score, total_marks),
          message |-> IF path = "manual" THEN "Quiz attempt saved successfully"
                      ELSE "Quiz attempt saved successfully using Supabase fallback"]

\* save_user_quiz_attempt at instant now, with outcome o of its
\* get_db_connection()
SaveAttemptAt(o, user_id, quiz_id, answers, total_marks, score, failAt, now) ==
    LET path == get_db_connection(o)
        after == AttemptTables(AttemptTablesNow, path, user_id, quiz_id, answers,
                               total_marks, score, failAt, now)
    IN /\ AttemptWritesAt(path, user_id, quiz_id, answers, total_marks, score, failAt, now)
       /\ last' = [op |-> "save_user_quiz_attempt", path |-> path,
                   user_id |-> EffectiveUser(user_id), quiz_id |-> quiz_id,
                   answers |-> answers, total_marks |-> total_marks, score |-> score,
                   failAt |-> failAt, now |-> now,
                   result |-> IF failAt = 0 THEN "saved" ELSE "failed",
                   returned |-> AttemptResult(path, after, score, total_marks, failAt)]
       /\ UNCHANGED <<docVars, quizVars, schema, procs, request>>

\* the rows of a set in some order of descending completed_at: rows with
\* equal completed_at come in any order
Orderings(rows) ==
    {f \in [1 .. Cardinality(rows) -> rows] :
        /\ \A i \in DOMAIN f, j \in DOMAIN f : i # j => f[i] # f[j]
        /\ \A i \in DOMAIN f, j \in DOMAIN f :
              i < j => f[i].completed_at >= f[j].completed_at}

\* LIMIT %s / .limit(limit)
FirstRowsMut(rows, limit) == rows
FirstRows(rows, limit) == SubSeq(rows, 1, IF limit < Len(rows) THEN limit ELSE Len(rows))

HasQuiz(r) == \E q \in quizzes : q.quiz_id = r.quiz_id
TopicOf(quiz_id) == (CHOOSE q \in quizzes : q.quiz_id = quiz_id).topic
HistoryEntry(r) ==
    [user_quiz_id |-> r.user_quiz_id, quiz_id |-> r.quiz_id, topic |-> TopicOf(r.quiz_id),
     completed_at |-> r.completed_at, total_marks |-> r.total_marks,
     score |-> r.score, percentage |-> r.percentage]

\* the rows the query of each path selects: the SQL path joins the quizzes
\* before ORDER BY and LIMIT, the Supabase-client path orders and limits
\* the user's attempts and then looks up the quiz of each
SelectedAttempts(path, user_id) ==
    IF path = "manual"
      THEN {r \in user_quizzes : r.user_id = user_id /\ HasQuiz(r)}
      ELSE {r \in user_quizzes : r.user_id = user_id}

\* get_user_quiz_attempts(user_id, limit) with outcome o of its
\* get_db_connection() and outcome s of its query; order is the order in
\* which the database returns the selected rows
GetUserQuizAttempts(o, s, user_id, limit, order) ==
    LET path == get_db_connection(o)
        limited == FirstRows(order, limit)
        kept == SelectSeq(limited, HasQuiz)
    IN /\ order \in Orderings(SelectedAttempts(path, user_id))
       /\ last' = [op |-> "get_user_quiz_attempts", path |-> path, user_id |-> user_id,
                   limit |-> limit,
                   success |-> s = "ok",
                   attempts |-> IF s = "ok"
                                  THEN [i \in 1 .. Len(kept) |-> HistoryEntry(kept[i])]
                                  ELSE <<>>,
                   count |-> IF s = "ok" THEN Len(kept) ELSE 0]
       /\ UNCHANGED <<docVars, quizVars, attemptVars, schema, procs, request>>

HistoryUsers == {"u1", "u2"}
HistoryQuizzes == {1, 2}
\* who takes which quiz
HistoryPairs == {<<"u1", 1>>, <<"u1", 2>>, <<"u2", 1>>}
HistoryScores == {1}

OpSaveAttemptAt ==
    \E o \in ReadOutcomes, p \in HistoryPairs, score \in HistoryScores,
       failAt \in 0 .. 1, now \in Clock :
        /\ now >= Latest
        /\ SaveAttemptAt(o, p[1], p[2], <<>>, 1, score, failAt, now)
OpGetUserQuizAttempts ==
    \E o \in ReadOutcomes, s \in ReadOutcomes, u \in HistoryUsers,
       limit \in 0 .. Cardinality(HistoryQuizzes) :
        \E order \in Orderings(SelectedAttempts(get_db_connection(o), u)) :
            GetUserQuizAttempts(o, s, u, limit, order)

\* two quizzes with one question each, saved earlier, and no attempts
InitHistory ==
    /\ SUPABASE_AVAILABLE = TRUE
    /\ supaDocs = {} /\ sqliteDocs = {}
    /\ nextSupaDocId = 1 /\ nextSqliteDocId = 1
    /\ NoDownloadsNoFiles
    /\ localDb = NoLocalDb
    /\ quizzes = {[quiz_id |-> 1, user_id |-> "u1", topic |-> <<"M", "a", "t", "h">>,
                   total_questions |-> 1],
                  [quiz_id |-> 2, user_id |-> "u1", topic |-> <<"A", "r", "t">>,
                   total_questions |-> 1]}
    /\ questions = {[question_id |-> 1, question_text |-> "2+2?"],
                    [question_id |-> 2, question_text |-> "3+3?"]}
    /\ options = {[question_id |-> 1, correct_option |-> "B"],
                  [question_id |-> 2, correct_option |-> "A"]}
    /\ quiz_questions = {[quiz_id |-> 1, question_id |-> 1, question_order |-> 1,
                          max_marks |-> 1],
                         [quiz_id |-> 2, question_id |-> 2, question_order |-> 1,
                          max_marks |-> 1]}
    /\ nextQuizId = 3 /\ nextQuestionId = 3
    /\ EmptyAttemptTables
    /\ schema = [options_check |-> TRUE, attempt_unique |-> TRUE]
    /\ procs = <<>>
    /\ request = NoCall
    /\ last = NoCall

NextHistory ==
    \/ OpSaveAttemptAt
    \/ OpGetUserQuizAttempts

SpecHistory == InitHistory /\ [][NextHistory]_vars

----------------------------------------------------------------------------

(* The generation loop of generate_quiz_api: main.py *)

\* `max_retries = 2': the completion call is made for attempt 0, 1 and 2
max_retries == 2

\* what one completion call gives: it raises (the call itself, or
\* json.loads on its text), or its text parses to a list of questions
CallRaises == [kind |-> "raise", questions |-> <<>>]
Parsed(qs) == [kind |-> "json", questions |-> qs]

\* the body of the try of one attempt reaches `break'
ReachesBreakMut(reply) == reply.kind = "json"
ReachesBreak(reply) == reply.kind = "json" /\ GeneratedOk(reply.questions)

\* `for attempt in range(max_retries + 1)': the number of calls made, and
\* questions_data when the loop is left by break; when the last attempt
\* fails the handler raises HTTP 500
RECURSIVE GenerationLoop(_, _)
GenerationLoop(replies, attempt) ==
    IF ReachesBreak(replies[attempt + 1])
      THEN [passed |-> TRUE, calls |-> attempt + 1,
            questions_data |-> replies[attempt + 1].questions]
    ELSE IF attempt = max_retries
      THEN [passed |-> FALSE, calls |-> attempt + 1, questions_data |-> <<>>]
    ELSE GenerationLoop(replies, attempt + 1)

\* generate_quiz_api from the first completion call to the response;
\* replies[i] is what the i-th completion call gives if it is made
GenerateQuizWithRetries(topic, replies, user_id, failAt, c1, c2) ==
    LET loop == GenerationLoop(replies, 0)
        call == GenerateQuizCall(topic, loop.questions_data, user_id, failAt)
    IN /\ IF loop.passed
            THEN GenerateQuizWrites(topic, loop.questions_data, user_id, failAt, c1, c2)
            ELSE /\ failAt = 0 /\ c1 = "ok" /\ c2 = "ok"
                 /\ UNCHANGED quizVars
       /\ last' = [op |-> "generate_quiz_api", topic |-> topic, user_id |-> user_id,
                   replies |-> replies, calls |-> loop.calls, passed |-> loop.passed,
                   questions |-> loop.questions_data,
                   result |-> call.result, quiz_id |-> call.quiz_id,
                   failAt |-> failAt, pre |-> PreQuiz]
       /\ request' = NoCall
       /\ UNCHANGED <<docVars, attemptVars, schema, procs>>

CompletionReplies == {CallRaises} \cup {Parsed(qs) : qs \in TopicQuestionLists}

\* the request that request holds is served
OpGenerateQuizWithRetries ==
    /\ request.op = "generate_quiz_api"
    /\ \E failAt \in 0 .. (3 * MaxQuestions + 1), c1 \in ReadOutcomes, c2 \in ReadOutcomes :
          GenerateQuizWithRetries(request.topic, request.replies, request.user_id,
                                  failAt, c1, c2)

\* an empty database and a request whose completion calls give replies
InitLoop ==
    /\ SUPABASE_AVAILABLE = TRUE
    /\ supaDocs = {} /\ sqliteDocs = {}
    /\ nextSupaDocId = 1 /\ nextSqliteDocId = 1
    /\ NoDownloadsNoFiles
    /\ localDb = NoLocalDb
    /\ EmptyQuizTables
    /\ EmptyAttemptTables
    /\ schema = [options_check |-> TRUE, attempt_unique |-> TRUE]
    /\ procs = <<>>
    /\ request \in [op : {"generate_quiz_api"}, topic : QuizTopics, user_id : QuizUsers,
                     replies : [1 .. (max_retries + 1) -> CompletionReplies]]
    /\ last = NoCall

NextLoop == OpGenerateQuizWithRetries

SpecLoop == InitLoop /\ [][NextLoop]_vars

----------------------------------------------------------------------------

(* Claims about the document store *)

DocOps == {"save_document_session", "get_document", "get_user_documents", "delete_document"}

\* C1: once a primary call of save_document_session, get_document,
\* get_user_documents or delete_document has raised, SUPABASE_AVAILABLE is
\* false; a false flag never becomes true again; and a document operation
\* that starts with the flag false makes no primary call and is not served
\* by the primary, whatever the primary would have answered.
LatchIsOneWay ==
    [][ /\ (~SUPABASE_AVAILABLE => ~SUPABASE_AVAILABLE')
        /\ (last'.op \in DocOps /\ last'.raised => ~SUPABASE_AVAILABLE')
        /\ (last'.op \in DocOps /\ ~SUPABASE_AVAILABLE =>
               last'.calls = 0 /\ last'.storage # "supabase") ]_vars

\* C1 witness: the primary stored a document in this run, the latch has
\* tripped since, and a later save was served by SQLite
LatchTrippedThenFallback ==
    /\ supaDocs # {}
    /\ ~SUPABASE_AVAILABLE
    /\ last.op = "save_document_session"
    /\ ~last.pre.avail
    /\ last.storage = "sqlite"

----------------------------------------------------------------------------
(* Claims about quiz creation *)

CreateOps == {"save_quiz_to_database", "generate_quiz_api"}

QuizTablesAsBefore ==
    /\ quizzes = last.pre.quizzes
    /\ questions = last.pre.questions
    /\ options = last.pre.options
    /\ quiz_questions = last.pre.quiz_questions

\* C8: a quiz-creating call given a question whose correct_option is not one
\* of A, B, C, D fails, has written no quizzes, questions, options or
\* quiz_questions row, and leaves no quiz that get_quiz_by_id returns.
InvalidOptionRejectedUnwritten ==
    (last.op = "save_quiz_to_database" /\ FirstInvalid(last.questions) # 0)
    => /\ last.result = "failed"
       /\ QuizTablesAsBefore
       /\ ~get_quiz_by_id(last.quiz_id).found
       /\ ~get_quiz_by_id_supabase(last.quiz_id).found

\* C9: when a creation fails after its quiz row was created, get_quiz_by_id
\* returns no quiz holding some but not all of the requested questions.
NoPartialQuizAfterFailure ==
    (last.op \in CreateOps /\ last.result = "failed" /\ last.failAt >= 2)
    => LET g == get_quiz_by_id_supabase(last.quiz_id)
       IN ~(g.found /\ Len(g.questions) \in 1 .. (Len(last.questions) - 1))

\* C10: when a creation fails after its quiz row was created, every row it
\* created has been deleted when the error is returned: the four tables
\* equal their state before the call.
FailedCreationFullyCompensated ==
    (last.op \in CreateOps /\ last.result = "failed" /\ last.failAt >= 2)
    => QuizTablesAsBefore


----------------------------------------------------------------------------
(* Claims about attempts and scoring *)

\* C2: after any sequence of sequential save_user_quiz_attempt calls (manual
\* SQL path or Supabase-client path) and save_quiz_with_title calls,
\* user_quizzes holds at most one row per (user_id, quiz_id) pair.
AtMostOneAttemptPerPair ==
    \A r1 \in user_quizzes : \A r2 \in user_quizzes :
        (r1.user_id = r2.user_id /\ r1.quiz_id = r2.quiz_id) => r1 = r2

\* a resubmission found its pair's attempt while another attempt of the user
\* has been moved to a copy by save_quiz_with_title
ResubmittedBesideMovedAttempt ==
    /\ last.op = "save_user_quiz_attempt"
    /\ last.result = "saved"
    /\ last.existed
    /\ \E r \in user_quizzes : r.user_id = last.user_id /\ r.quiz_id # last.quiz_id

\* C3: when the same (user_id, quiz_id) is submitted twice in succession
\* with different answers and both calls succeed, the pair's single attempt
\* row has the total_marks, score and percentage of the second submission
\* and the attempt's user_answers rows are exactly the second's answers.
SubmittedTwice ==
    /\ last.op = "save_user_quiz_attempt"
    /\ last.result = "saved"
    /\ last.prev.saved
    /\ last.prev.answers # last.answers
SecondSubmissionReplacesFirst ==
    SubmittedTwice =>
        LET mine == {r \in user_quizzes :
                        r.user_id = last.user_id /\ r.quiz_id = last.quiz_id}
        IN /\ Cardinality(mine) = 1
           /\ \A r \in mine :
                 /\ r.total_marks = last.total_marks
                 /\ r.score = last.score
                 /\ r.percentage = Round2(Percentage(last.score, last.total_marks))
                 /\ AnswersOf(r.user_quiz_id) = last.answers

SecondSubmissionSaved ==
    /\ SubmittedTwice
    /\ last.existed
    /\ last.prev.answers # <<>>
    /\ last.answers # <<>>

\* C4: two submissions of one (user_id, quiz_id) whose backend calls
\* interleave end with exactly one attempt row for the pair, whose answers
\* are exactly those of one of the two submissions and whose score is that
\* submission's.
BothReturned == procs # <<>> /\ \A p \in Procs : procs[p].pc \in {"done", "failed"}
InterleavedSubmissionsLeaveOne ==
    BothReturned =>
        LET mine == {r \in user_quizzes : \E p \in Procs :
                        r.user_id = procs[p].user_id /\ r.quiz_id = procs[p].quiz_id}
        IN /\ Cardinality(mine) = 1
           /\ \A r \in mine : \E p \in Procs :
                 /\ AnswersOf(r.user_quiz_id) = procs[p].answers
                 /\ r.score = ConcScore(procs[p].answers)

\* C5: submit_quiz's score is the number of answers whose selected_option is
\* the correct_option of the quiz question with their question_id; an answer
\* whose question_id is not in the quiz, or is missing, counts 0 whatever
\* its selected_option (null included) and never raises an error.
Matches(quiz, answer) ==
    /\ answer.keys = AnswerKeys
    /\ \E i \in 1 .. Len(quiz.questions) :
          /\ quiz.questions[i].question_id = answer.question_id
          /\ quiz.questions[i].correct_option = answer.selected_option
ScoreCountsMatchingAnswers ==
    last.op = "calculate_score" =>
        /\ ~last.error
        /\ last.score =
              Cardinality({i \in 1 .. Len(last.answers) :
                              Matches(get_quiz_by_id(last.quiz_id), last.answers[i])})

\* C6: for every (score, total_marks) passed to save_user_quiz_attempt the
\* percentage stored on the attempt row and the percentage returned both
\* equal score / total_marks * 100 rounded to 2 decimals when
\* total_marks > 0, and 0 when total_marks = 0.
PercentageStoredAndReturnedRounded ==
    (last.op = "save_user_quiz_attempt" /\ last.result = "saved") =>
        LET rounded == Round2(Percentage(last.score, last.total_marks))
        IN /\ \A r \in user_quizzes :
                 (r.user_id = last.user_id /\ r.quiz_id = last.quiz_id) =>
                     r.percentage = rounded
           /\ SameValue(last.percentage, rounded)
           /\ (last.total_marks = 0 => rounded = 0)

----------------------------------------------------------------------------
(* Claims about error handling and the choice of backend *)

\* C11: save_document_session returns success = false only when neither
\* backend stored the document: whenever the primary attempt does not store
\* it, the SQLite insert is attempted and the result is success = true with
\* the SQLite doc_id.
SaveFallsBackWhenPrimaryStoresNothing ==
    (last.op = "save_document_session" /\ last.storage # "supabase") =>
        /\ last.result = "saved"
        /\ last.storage = "sqlite"
        /\ \E d \in sqliteDocs \ last.pre.sqlite : d.doc_id = last.doc_id

\* C12: no public persistence operation raises to its caller: at whatever
\* point a backend call fails (cursor creation, BEGIN and ROLLBACK on a dead
\* connection included) the operation returns a result value.
OperationsReturnNeverRaise ==
    last.op = "save_quiz_to_database" => last.result \in {"saved", "failed"}

\* C13: a primary call that raises inside increment_download_count,
\* get_summary_file_content or save_uploaded_file_to_storage leaves
\* SUPABASE_AVAILABLE false, so the next operation does not attempt the
\* primary.
StorageOps == {"increment_download_count", "get_summary_file_content",
               "save_uploaded_file_to_storage"}
EveryPrimaryFailureTripsLatch ==
    (last.op \in StorageOps /\ last.raised) => ~SUPABASE_AVAILABLE

\* C14: every Quiz Relational Manager operation consults a process-wide
\* backend-health flag, so once an operation found PostgreSQL failed (and
\* served the call through the Supabase client) no later quiz operation
\* attempts PostgreSQL again: the backend in use does not change back.
QuizManagerOps == {"save_quiz_to_database", "get_quiz_by_id", "save_user_quiz_attempt"}
FailedBackendNotAttemptedAgain ==
    [][ (/\ last.op \in QuizManagerOps
         /\ last.path = "supabase"
         /\ last'.op \in QuizManagerOps) => last'.path = "supabase" ]_vars

\* C15: while SUPABASE_AVAILABLE is true and the primary call succeeds,
\* get_document(doc_id) for a doc_id absent from the primary returns
\* not-found, even when the local SQLite store has a document with that
\* doc_id.
PrimaryAnswersAlone ==
    (/\ last.op = "get_document"
     /\ last.pre.avail
     /\ ~last.raised
     /\ ~\E d \in last.pre.supa : d.doc_id = last.doc_id)
    => last.fetched = NoDoc

----------------------------------------------------------------------------
(* Claims about retries, marks and question order *)

\* C16: calling save_user_quiz_attempt again with the same input, whether
\* the earlier call succeeded or failed part-way, and succeeding, leaves
\* exactly the attempt row and answer rows that a single successful call
\* would have left: the other attempts as they were, and for the pair one
\* attempt with the input's marks and exactly the input's answers.
AfterOneSuccessfulCall ==
    {v \in AttemptView(request.pre.user_quizzes, request.pre.user_answers) :
        ~(v.user_id = request.user_id /\ v.quiz_id = request.quiz_id)}
    \cup {[user_id |-> request.user_id, quiz_id |-> request.quiz_id,
           total_marks |-> request.total_marks, score |-> request.score,
           percentage |-> Round2(Percentage(request.score, request.total_marks)),
           answers |-> request.answers]}
RECURSIVE SumMaxMarks(_)
SumMaxMarks(qs) ==
    IF qs = <<>> THEN 0 ELSE qs[1].max_marks + SumMaxMarks(Tail(qs))
MarksFollowTheQuiz ==
    (last.op = "save_user_quiz_attempt" /\ last.result = "saved") =>
        LET quiz == get_quiz_by_id_supabase(last.quiz_id)
            mine == {r \in user_quizzes :
                        r.user_id = last.user_id /\ r.quiz_id = last.quiz_id}
        IN \A r \in mine :
              /\ r.total_marks = SumMaxMarks(quiz.questions)
              /\ \A a \in {b \in user_answers : b.user_quiz_id = r.user_quiz_id} :
                    \/ a.awarded_marks = 0
                    \/ \E i \in 1 .. Len(quiz.questions) :
                          /\ quiz.questions[i].question_id = a.question_id
                          /\ quiz.questions[i].max_marks = a.awarded_marks

\* C18: for every list of questions q1..qn, a successful quiz creation
\* followed by get_quiz_by_id returns the questions in exactly the input
\* order, over SQL and through the Supabase client.
AsSubmitted(quiz) ==
    [i \in 1 .. Len(quiz.questions) |->
        [question_text |-> quiz.questions[i].question_text,
         correct_option |-> quiz.questions[i].correct_option]]
CreateThenReadKeepsOrder ==
    (last.op \in CreateOps /\ last.result = "saved" /\ last.questions # <<>>) =>
        /\ get_quiz_by_id(last.quiz_id).found
        /\ AsSubmitted(get_quiz_by_id(last.quiz_id)) = last.questions
        /\ get_quiz_by_id_supabase(last.quiz_id).found
        /\ AsSubmitted(get_quiz_by_id_supabase(last.quiz_id)) = last.questions

CreatedTwoDifferentQuestions ==
    /\ last.op \in CreateOps
    /\ last.result = "saved"
    /\ Len(last.questions) = 2
    /\ last.questions[1] # last.questions[2]
    /\ Len(get_quiz_by_id(last.quiz_id).questions) = 2

\* C19: in every reachable state each stored quiz's quiz_questions rows carry
\* the question_order values 1..n, without gaps or duplicates, and n is the
\* total_questions stored on the quiz row; after successful and after
\* failed creations.
OrdersDenseAndCounted ==
    \A q \in quizzes :
        LET links == {l \in quiz_questions : l.quiz_id = q.quiz_id}
        IN /\ {l.question_order : l \in links} = 1 .. Cardinality(links)
           /\ Cardinality(links) = q.total_questions

\* C20: whenever quiz creation reports success with quiz_id q and
\* total_questions n, for any n the creation accepts (an empty question
\* list included), get_quiz_by_id(q) returns that quiz with exactly n
\* questions rather than not-found.
CreatedQuizIsRetrievable ==
    (last.op \in CreateOps /\ last.result = "saved") =>
        /\ get_quiz_by_id(last.quiz_id).found
        /\ Len(get_quiz_by_id(last.quiz_id).questions) = Len(last.questions)
        /\ get_quiz_by_id_supabase(last.quiz_id).found
        /\ Len(get_quiz_by_id_supabase(last.quiz_id).questions) = Len(last.questions)

----------------------------------------------------------------------------
(* Claims about downloads, deletion replies, listings and the local schema *)

\* the backend whose row a tracked read returned
ServedBy(call) ==
    IF call.pre.avail /\ call.first = "ok"
       /\ \E d \in call.pre.supa : d.doc_id = call.doc_id
      THEN "supabase" ELSE "sqlite"

\* C25: each successful call of get_document_with_download_tracking on an
\* existing document increases the document's download_count by exactly 1,
\* and the increase is observable: the next read reports the stored count.
TrackedReadsAreCounted ==
    (last.op = "get_document_with_download_tracking" /\ last.incremented) =>
        /\ downloads[ServedBy(last)][last.doc_id]
              = last.pre.downloads[ServedBy(last)][last.doc_id] + 1
        /\ get_document(SUPABASE_AVAILABLE, localDb, last.doc_id, "ok").doc.download_count
              = downloads[ServedBy(last)][last.doc_id]

\* C26: if the download_count increment fails, for whatever reason,
\* get_document_with_download_tracking still returns the document that
\* get_document returns; it returns None only when that one does.
TrackingFailureKeepsDocument ==
    last.op = "get_document_with_download_tracking" =>
        last.fetched = get_document(last.pre.avail, last.pre.db, last.doc_id, last.first).doc

\* C26 witness: a tracked read returned a document although its increment failed
ReturnedThoughIncrementFailed ==
    /\ last.op = "get_document_with_download_tracking"
    /\ last.fetched # NoDoc
    /\ ~last.incremented
    /\ downloads = last.pre.downloads

ListedNewestFirstAndOwned ==
    last.op = "get_user_documents" =>
        LET rows == IF last.storage = "supabase" THEN last.pre.supa ELSE last.pre.sqlite
        IN /\ \A i \in 1 .. Len(last.listed) : \A j \in 1 .. Len(last.listed) :
                 i < j => last.listed[i].doc_id > last.listed[j].doc_id
           /\ \A i \in 1 .. Len(last.listed) :
                 \E d \in rows : d.doc_id = last.listed[i].doc_id
           /\ last.limit > 0 => Len(last.listed) <= last.limit
           /\ (last.user_id = Null /\ last.limit = NoLimit)
                 => {last.listed[i].doc_id : i \in 1 .. Len(last.listed)}
                       = {d.doc_id : d \in rows}
           /\ last.user_id # Null
                 => \A i \in 1 .. Len(last.listed) : last.listed[i].user_id = last.user_id

\* C30: the local schema is initialised lazily and idempotently: an operation
\* that is served by the primary leaves local_documents.db alone, every
\* operation that opens it finds the documents table, the table is there
\* whenever the latch is off, and running the initialisation again leaves an
\* existing file and its rows as they were.
LocalSchemaLazyAndIdempotent ==
    /\ ~SUPABASE_AVAILABLE => localDb.table
    /\ last.op \in DocOps \cup {"import"} =>
          /\ last.local # "no such table"
          /\ last.local = "unused" => localDb = last.pre.db
          /\ last.local = "opened" => localDb = ReadyLocalDb
          /\ last.op \in {"import", "get_document", "get_user_documents"}
                => sqliteDocs = last.pre.sqlite
          /\ last.pre.db.table => localDb = last.pre.db

\* C30 witness: the process was started again with the primary down, and the
\* initialisation ran on a local_documents.db that already held documents
SchemaInitialisedAgainOnRows ==
    /\ last.op = "import"
    /\ last.local = "opened"
    /\ last.pre.db = ReadyLocalDb
    /\ last.pre.sqlite # {}
    /\ sqliteDocs = last.pre.sqlite

----------------------------------------------------------------------------
(* Claims about what a saved document holds and what a read returns *)

\* the row a successful save_document_session call stored
StoredRow(call) ==
    CHOOSE d \in (IF call.storage = "supabase" THEN supaDocs ELSE sqliteDocs) :
        d.doc_id = call.doc_id

\* the document get_document returns for the saved doc_id at time now, its
\* primary select not failing
ReadBack(call, now) ==
    GetDocumentRecord(SUPABASE_AVAILABLE, localDb, call.doc_id, now, "ok").doc

\* s is the first 255 characters of t
IsFirst255(s, t) ==
    /\ Len(s) = (IF Len(t) < 255 THEN Len(t) ELSE 255)
    /\ \A i \in 1 .. Len(s) : s[i] = t[i]

\* C21: for every topic string save_document_session stores exactly the
\* first 255 characters of the topic, on the primary and on the SQLite path,
\* and get_document returns that value; the truncation is silent: a save
\* fails only when the primary returned no data, whatever the topic's length.
TopicStoredAsFirst255 ==
    last.op = "save_document_session" =>
        /\ last.result = "saved" =>
              /\ IsFirst255(StoredRow(last).topic, last.topic)
              /\ \A now \in Times :
                    /\ ReadBack(last, now).found
                    /\ IsFirst255(ReadBack(last, now).document.topic, last.topic)
        /\ last.result = "failed" => last.outcome = "nodata"

\* C21 witness: a topic longer than 255 characters was saved in SQLite
LongTopicSavedLocally ==
    /\ last.op = "save_document_session"
    /\ last.result = "saved"
    /\ last.storage = "sqlite"
    /\ Len(last.topic) > 255
    /\ Len(StoredRow(last).topic) = 255

\* C23: after save_document_session(user_id, topic, content, summary,
\* resources, keywords) succeeded with doc_id d, a positive integer,
\* get_document(d) on the same backend returns user_id, topic[:255], content,
\* summary, keywords and resources equal to the saved values.
SaveReadRoundTrip ==
    (last.op = "save_document_session" /\ last.result = "saved") =>
        /\ last.doc_id > 0
        /\ \A now \in Times :
              /\ ReadBack(last, now).found
              /\ LET document == ReadBack(last, now).document
                 IN /\ document.doc_id = last.doc_id
                    /\ document.user_id = EffectiveUser(last.user_id)
                    /\ IsFirst255(document.topic, last.topic)
                    /\ document.content = last.content
                    /\ document.summary = last.summary
                    /\ Truthy(last.keywords) => document.keywords = last.keywords
                    /\ document.resources = last.resources

\* C24: get_document returns the created_at the backend recorded at the save
\* whenever the backend stores one, as the SQLite fallback does, so two reads
\* of an unchanged fallback document return the same created_at.
CreatedAtIsTheStoredOne ==
    (last.op = "save_document_session" /\ last.result = "saved"
     /\ last.storage = "sqlite") =>
        /\ StoredRow(last).created_at = last.now
        /\ \A now \in Times :
              ReadBack(last, now).document.created_at = StoredRow(last).created_at
        /\ \A t1 \in Times, t2 \in Times :
              ReadBack(last, t1).document.created_at
                 = ReadBack(last, t2).document.created_at

\* C22: every quiz row written by a quiz-creating operation
\* (save_quiz_to_database and its variants, generate_quiz_api,
\* save_quiz_with_title) has as topic the first 255 characters of the
\* requested topic, so no stored quiz topic is longer than 255 characters.
QuizTopicsAreFirst255 ==
    /\ \A q \in quizzes : Len(q.topic) <= 255
    /\ last.op \in CreateOps \cup {"save_quiz_with_title"} =>
          \A q \in quizzes : q.quiz_id = last.quiz_id => IsFirst255(q.topic, last.topic)

\* did the call meet a storage failure that stood between it and the row:
\* a query of get_quiz_by_id raised, or the primary select of get_document
\* raised for a document the primary holds
StorageFailed(call) ==
    IF call.op = "get_quiz_by_id" THEN call.failed
    ELSE call.raised /\ \E d \in call.pre.supa : d.doc_id = call.doc_id

\* C28: for get_document and get_quiz_by_id the result for an absent
\* doc_id / quiz_id is distinguishable from the result returned when the
\* backends fail: a storage failure is never reported as the value that
\* means not-found.
FailureIsNotReportedAsNotFound ==
    (last.op \in {"get_document", "get_quiz_by_id"} /\ StorageFailed(last)) =>
        IF last.op = "get_quiz_by_id" THEN last.returned # NoQuiz
        ELSE last.fetched # NoDoc

----------------------------------------------------------------------------

(* Claims about the quiz-taking view, generated questions and reports *)

\* the options table with the correct letters replaced by those of f
Relabelled(f) ==
    {[question_id |-> o.question_id, correct_option |-> f[o.question_id]] : o \in options}
Relabellings == [{o.question_id : o \in options} -> ValidOptions]

\* C31: the response of GET /quiz/{quiz_id} carries no correct_option for
\* any question, and it is the same response whatever correct letters the
\* options rows of the database hold
ViewHidesCorrectOptions ==
    last.op = "get_quiz" =>
        /\ last.response.status = 200 =>
              \A i \in 1 .. Len(last.response.questions) :
                  "correct_option" \notin DOMAIN last.response.questions[i]
        /\ \A f \in Relabellings :
              QuizResponse(QuizData(last.path, IF last.failed THEN "raise" ELSE "ok",
                                    Relabelled(f), last.quiz_id)) = last.response

\* a quiz of two questions with different letters has been served
TwoQuestionQuizServed ==
    /\ last.op = "get_quiz"
    /\ last.response.status = 200
    /\ Len(last.response.questions) = 2
    /\ \E a \in options, b \in options :
          /\ a.question_id = last.response.questions[1].question_id
          /\ b.question_id = last.response.questions[2].question_id
          /\ a.correct_option # b.correct_option

\* a question of a reply as generate_quiz_questions takes it: an object
\* whose six fields are strings, non-blank, with one of the letters A-D in
\* either case as correct_option
Acceptable(q) ==
    /\ q.isdict
    /\ \A f \in required_fields :
          q.fields[f].type = "str" /\ strip(q.fields[f].s) # <<>>
    /\ upper(q.fields["correct_option"].s) \in Letters

\* C32: generate_quiz_questions returns success only with questions whose
\* six fields are non-empty strings and whose correct_option is one of the
\* upper-case letters A-D; when a question of the reply cannot be taken, it
\* returns failure with an empty question list
GeneratedQuestionsWellFormed ==
    last.op = "generate_quiz_questions" =>
        LET r == last.result
        IN /\ r.success =>
                \A i \in 1 .. Len(r.questions) :
                    /\ DOMAIN r.questions[i] = required_fields
                    /\ \A f \in required_fields :
                          /\ r.questions[i][f].type = "str"
                          /\ r.questions[i][f].s # <<>>
                          /\ strip(r.questions[i][f].s) # <<>>
                    /\ r.questions[i]["correct_option"].s \in Letters
           /\ (last.reply.kind = "array" /\
               \E i \in 1 .. Len(last.reply.items) : ~Acceptable(last.reply.items[i]))
                 => (~r.success /\ r.questions = <<>>)
           /\ ~r.success => (r.questions = <<>> /\ r.total_questions = 0)

\* a reply with a lower-case letter and a padded text was accepted
LowerCaseLetterAccepted ==
    /\ last.op = "generate_quiz_questions"
    /\ last.result.success
    /\ Len(last.result.questions) = 2
    /\ last.reply.items[1].fields["correct_option"].s = <<"a">>
    /\ last.reply.items[2].fields["question_text"].s = <<" ", "x", " ">>

\* C33: in the report of a successful submission correct_answers +
\* incorrect_answers = total_questions, score = correct_answers,
\* questions_attempted + questions_skipped = total_questions, and no count
\* is negative
ReportCountsAddUp ==
    (last.op = "submit_quiz" /\ last.status = 200) =>
        LET r == last.report
        IN /\ r.correct_answers + r.incorrect_answers = r.total_questions
           /\ r.score = r.correct_answers
           /\ r.questions_attempted + r.questions_skipped = r.total_questions
           /\ r.correct_answers >= 0 /\ r.incorrect_answers >= 0
           /\ r.questions_attempted >= 0 /\ r.questions_skipped >= 0
           /\ r.score >= 0 /\ r.total_questions >= 0

----------------------------------------------------------------------------

(* Claims about the history of attempts and the two ways of saving one *)

AttemptsOf(user_id) == {r \in user_quizzes : r.user_id = user_id}
Smaller(a, b) == IF a < b THEN a ELSE b

\* C34: a successful get_user_quiz_attempts(user_id, limit) returns
\* min(limit, number of the user's attempts) entries, each an attempt of
\* that user with the topic of its quiz, in descending order of
\* completed_at, on the SQL path and on the Supabase-client path
HistoryIsOwnLatestFirst ==
    (last.op = "get_user_quiz_attempts" /\ last.success) =>
        /\ Len(last.attempts) = Smaller(last.limit, Cardinality(AttemptsOf(last.user_id)))
        /\ last.count = Len(last.attempts)
        /\ \A i \in 1 .. Len(last.attempts) :
              /\ \E r \in AttemptsOf(last.user_id) :
                    /\ r.user_quiz_id = last.attempts[i].user_quiz_id
                    /\ r.quiz_id = last.attempts[i].quiz_id
                    /\ r.completed_at = last.attempts[i].completed_at
              /\ \E q \in quizzes :
                    /\ q.quiz_id = last.attempts[i].quiz_id
                    /\ q.topic = last.attempts[i].topic
        /\ \A i \in 1 .. Len(last.attempts), j \in 1 .. Len(last.attempts) :
              i < j =>
                 /\ last.attempts[i].completed_at >= last.attempts[j].completed_at
                 /\ last.attempts[i].user_quiz_id # last.attempts[j].user_quiz_id
        \* none of the attempts left out is later than one returned
        /\ \A r \in AttemptsOf(last.user_id) :
              (\A i \in 1 .. Len(last.attempts) :
                  last.attempts[i].user_quiz_id # r.user_quiz_id) =>
                 \A i \in 1 .. Len(last.attempts) :
                     last.attempts[i].completed_at >= r.completed_at

\* the later of a user's two attempts was returned alone, while the other
\* user has attempts too
LatestOfTwoReturned ==
    /\ last.op = "get_user_quiz_attempts" /\ last.success
    /\ last.limit = 1
    /\ Len(last.attempts) = 1
    /\ \E r \in AttemptsOf(last.user_id) :
          r.completed_at < last.attempts[1].completed_at
    /\ \E r \in user_quizzes : r.user_id # last.user_id

\* C35: when delete_document has read the document from the primary and the
\* primary delete then raises, no SQLite document with that doc_id that
\* belongs to a user other than the caller is deleted
FallbackDeleteSparesOthers ==
    (/\ last.op = "delete_document"
     /\ Truthy(last.user_id)
     /\ last.pre.avail
     /\ last.fetched \in {_normalize_supabase_document(d) : d \in last.pre.supa}
     /\ last.raised)
    => \A d \in last.pre.sqlite :
          (d.doc_id = last.doc_id /\ d.user_id # last.user_id) => d \in sqliteDocs

\* C36: a save_user_quiz_attempt that returns failure leaves the attempt row
\* of its (user_id, quiz_id) and the answers of that attempt as they were
\* before the call
RowsOfPair(rows, user_id, quiz_id) ==
    {r \in rows : r.user_id = user_id /\ r.quiz_id = quiz_id}
AnswersOfPair(attempts, answers, user_id, quiz_id) ==
    {a \in answers : \E r \in RowsOfPair(attempts, user_id, quiz_id) :
                        a.user_quiz_id = r.user_quiz_id}
FailedSaveStep ==
    (last'.op = "save_user_quiz_attempt" /\ last'.result = "failed") =>
        /\ RowsOfPair(user_quizzes', last'.user_id, last'.quiz_id)
              = RowsOfPair(user_quizzes, last'.user_id, last'.quiz_id)
        /\ AnswersOfPair(user_quizzes', user_answers', last'.user_id, last'.quiz_id)
              = AnswersOfPair(user_quizzes, user_answers, last'.user_id, last'.quiz_id)
FailedSaveChangesNothing == [][FailedSaveStep]_vars

\* C37: for every answer list submit_quiz accepts, 0 <= score <=
\* total_marks, and the percentage stored and the percentage returned lie
\* between 0 and 100
ScoreWithinTotal ==
    (last.op = "submit_quiz" /\ last.status = 200) =>
        /\ 0 <= last.report.score
        /\ last.report.score <= last.report.total_marks
        /\ 0 <= last.report.percentage.num
        /\ last.report.percentage.num <= 100 * last.report.percentage.den
        /\ \A r \in user_quizzes :
              (r.user_id = last.user_id /\ r.quiz_id = last.quiz_id) =>
                  (0 <= r.percentage /\ r.percentage <= 10000)

\* C38: a submission saved without a failure leaves the same attempt rows
\* (completed_at included) and answer rows, and returns the same result,
\* whether it runs on the SQL path or on the Supabase-client path
SavedAlike(a, b) ==
    /\ a.user_quizzes = b.user_quizzes
    /\ a.user_answers = b.user_answers
    /\ a.nextUserQuizId = b.nextUserQuizId
\* a result without its message, which names the path
Outcome(result) ==
    [success |-> result.success, user_quiz_id |-> result.user_quiz_id,
     percentage |-> result.percentage]
PathsAgreeStep ==
    (last'.op = "save_user_quiz_attempt" /\ last'.result = "saved") =>
        LET run(path) == AttemptTables(AttemptTablesNow, path, last'.user_id,
                                       last'.quiz_id, last'.answers, last'.total_marks,
                                       last'.score, 0, last'.now)
        IN /\ SavedAlike(run("manual"), run("supabase"))
           /\ SavedAlike(run(last'.path),
                         [user_quizzes |-> user_quizzes', user_answers |-> user_answers',
                          nextUserQuizId |-> nextUserQuizId'])
           /\ Outcome(AttemptResult("manual", run("manual"), last'.score,
                                    last'.total_marks, 0))
                 = Outcome(AttemptResult("supabase", run("supabase"), last'.score,
                                         last'.total_marks, 0))
SavePathsEquivalent == [][PathsAgreeStep]_vars

----------------------------------------------------------------------------

(* Claims about the generation loop *)

\* a reply that passes validation: it parses to a non-empty list of
\* questions whose correct_option is one of A-D
PassesValidation(reply) ==
    /\ reply.kind = "json"
    /\ reply.questions # <<>>
    /\ \A k \in 1 .. Len(reply.questions) :
          reply.questions[k].correct_option \in ValidOptions
PassingCalls == {i \in 1 .. Len(last.replies) : PassesValidation(last.replies[i])}
WrittenQuestions == questions \ last.pre.questions

\* C39: generate_quiz_api calls the generator at most 3 times and stops at
\* the first reply that passes validation; it writes no quizzes, questions,
\* options or quiz_questions row unless some reply passed, and the
\* questions it writes are exactly those of the reply that passed
LoopStopsAtFirstValid ==
    last.op = "generate_quiz_api" =>
        /\ last.calls \in 1 .. 3
        /\ PassingCalls = {} =>
              /\ last.calls = 3
              /\ quizzes = last.pre.quizzes
              /\ questions = last.pre.questions
              /\ options = last.pre.options
              /\ quiz_questions = last.pre.quiz_questions
        /\ PassingCalls # {} =>
              /\ last.calls \in PassingCalls
              /\ \A i \in PassingCalls : last.calls <= i
              /\ \A row \in WrittenQuestions :
                    \E k \in 1 .. Len(last.replies[last.calls].questions) :
                        last.replies[last.calls].questions[k].question_text
                            = row.question_text
        /\ last.result = "saved" =>
              LET qs == last.replies[last.calls].questions
              IN /\ PassingCalls # {}
                 /\ Cardinality(WrittenQuestions) = Len(qs)
                 /\ \A k \in 1 .. Len(qs) :
                       \E row \in WrittenQuestions :
                           /\ row.question_text = qs[k].question_text
                           /\ [question_id |-> row.question_id,
                               correct_option |-> qs[k].correct_option] \in options
                           /\ \E l \in quiz_questions :
                                 /\ l.quiz_id = last.quiz_id
                                 /\ l.question_id = row.question_id
                                 /\ l.question_order = k

\* the third call passed after a reply with a letter outside A-D and a call
\* that raised, and its question was written
ThirdCallPassed ==
    /\ last.op = "generate_quiz_api"
    /\ last.result = "saved"
    /\ last.calls = 3
    /\ last.replies[1].kind = "json" /\ last.replies[1].questions # <<>>
    /\ last.replies[2].kind = "raise"
    /\ WrittenQuestions # {}

============================================================================
